---- MODULE Spec2Model ----
(***************************************************************************)
(* Sound-reflection simulator: ray propagation and scoring, occupancy      *)
(* cloud, cooperative placement optimizer (learning mode).                 *)
(*                                                                         *)
(* Arithmetic.  The program computes in float64.  The model computes in    *)
(* exact integers on a lattice: one length unit is 0.005 scene units, so   *)
(* OPTIMIZATION_STEP_SIZE 0.5 is 100, the reflection offset 0.01 is 2 and  *)
(* MAX_RAY_DISTANCE 50.0 is 10000.  EPSILON (0.00001 = 0.002 units, and    *)
(* 0.4 squared units) lies below the lattice resolution, so on integers    *)
(*   x > EPSILON  is  x > 0,   |x| < EPSILON  is  x = 0,                   *)
(*   dSq < sSq + EPSILON  is  dSq <= sSq.                                  *)
(* Ray directions are the six axis unit vectors.  Square roots are taken   *)
(* exactly (ISqrt is undefined on a non-square, and TLC reports that):     *)
(* the scene keeps every sphere centre and every ray origin on one         *)
(* 50-unit lattice, where all roots that occur are exact.  Lengths are     *)
(* compared through their squares.                                         *)
(* Opacities are counted in twentieths (0.6 is 12, 0.85 is 17).            *)
(***************************************************************************)
EXTENDS Integers, Sequences, FiniteSets, TLC

(***************************************************************************)
(* Program constants                                                       *)
(***************************************************************************)
MAX_RAY_DISTANCE == 10000
OPTIMIZATION_STEP_SIZE == 100
FIBONACCI_SCORE_CAP_INDEX == 20
BASE_DIRECT_HIT_SCORE == 10
REFLECTION_OFFSET == 2
StateEmpty == 0
StateStaticObstacle == 1
StateSoundSource == 2
StateListener == 3
StateOutOfBounds == 4
listenerRayColor == 65280
bounceColors ==
  << 16776960, 16753920, 16711935, 65535, 64154, 14524637,
     16416882, 11393254, 15787660, 9498256, 16761035 >>

(***************************************************************************)
(* Small helpers                                                           *)
(***************************************************************************)
Max(a, b) == IF a >= b THEN a ELSE b
Min(a, b) == IF a <= b THEN a ELSE b
Abs(a) == IF a < 0 THEN -a ELSE a
Range(s) == { s[i] : i \in DOMAIN s }

RECURSIVE Pow(_, _)
Pow(b, e) == IF e = 0 THEN 1 ELSE b * Pow(b, e - 1)

\* math.Sqrt on the values the lattice produces (exact roots only).
ISqrt(n) == CHOOSE k \in 0..(2 * OPTIMIZATION_STEP_SIZE) : k * k = n

(***************************************************************************)
(* Vector3                                                                 *)
(***************************************************************************)
Vec(x, y, z) == << x, y, z >>
ZeroVec == << 0, 0, 0 >>
Add(v, o) == << v[1] + o[1], v[2] + o[2], v[3] + o[3] >>
Sub(v, o) == << v[1] - o[1], v[2] - o[2], v[3] - o[3] >>
Scale(v, s) == << v[1] * s, v[2] * s, v[3] * s >>
Half(v) == << v[1] \div 2, v[2] \div 2, v[3] \div 2 >>
Dot(v, o) == v[1] * o[1] + v[2] * o[2] + v[3] * o[3]
LengthSquared(v) == Dot(v, v)
\* v.Length() < r, for r >= 0
LengthLess(v, r) == LengthSquared(v) < r * r
Normalize(v) ==
  LET l == ISqrt(LengthSquared(v))
  IN  IF l = 0 THEN ZeroVec
      ELSE IF Scale(<< v[1] \div l, v[2] \div l, v[3] \div l >>, l) = v
           THEN << v[1] \div l, v[2] \div l, v[3] \div l >>
           ELSE CHOOSE u \in {} : TRUE
Reflect(v, normal) == Sub(v, Scale(normal, 2 * Dot(v, normal)))

(***************************************************************************)
(* Scene.  A corridor along X under a low ceiling and beside a side wall,  *)
(* with a thin pillar across it and a cabinet at its far end that reaches  *)
(* beyond the room.  Objects are records; the program's pointer            *)
(* comparisons (obj == soundSource) are comparisons of the unique Name.    *)
(***************************************************************************)
SceneObject(name, shapeType, pos, scale, isStatic) ==
  [ Name |-> name, ShapeType |-> shapeType, Position |-> pos, Scale |-> scale,
    Visible |-> TRUE, IsStatic |-> isStatic ]

\* Room bounds and cell size handed to NewOccupancyCloud.
SceneRoomMin == ZeroVec
SceneRoomMax == Vec(450, 150, 150)
SceneCellSize == Vec(50, 80, 80)

\* Both movable spheres have Scale 0.25 (50 units), the listener's value.
MovableScale == Vec(OPTIMIZATION_STEP_SIZE \div 2, OPTIMIZATION_STEP_SIZE \div 2,
                    OPTIMIZATION_STEP_SIZE \div 2)
SourceStart == Vec(225, 25, 25)
ListenerStart == Vec(25, 25, 25)

staticSceneObjects ==
  << SceneObject("Ceiling", "box", Vec(225, 115, 75), Vec(440, 60, 140), TRUE),
     SceneObject("SideWall", "box", Vec(225, 40, 115), Vec(440, 70, 60), TRUE),
     SceneObject("Pillar", "box", Vec(160, 25, 25), Vec(10, 40, 40), TRUE),
     SceneObject("Cabinet", "box", Vec(385, 25, 25), Vec(200, 140, 140), TRUE) >>

soundSource(g) == SceneObject("SoundSource", "sphere", g.sourcePos, MovableScale, FALSE)
listener(g) == SceneObject("Listener", "sphere", g.listenerPos, MovableScale, FALSE)
allSceneObjects(g) == staticSceneObjects \o << soundSource(g), listener(g) >>

(***************************************************************************)
(* performRaycast                                                          *)
(***************************************************************************)
NoObject == ""
NoHit(maxDist) ==
  [ Hit |-> FALSE, Point |-> ZeroVec, Normal |-> ZeroVec, Distance |-> maxDist,
    Object |-> NoObject ]

\* Ray-sphere: the smaller root of the quadratic, or -1.
sphereHitDistance(origin, direction, obj, closestDistance) ==
  LET oc == Sub(origin, obj.Position)
      a == Dot(direction, direction)
      b == 2 * Dot(oc, direction)
      c == Dot(oc, oc) - obj.Scale[1] * obj.Scale[1]
      discriminant == b * b - 4 * a * c
  IN  IF discriminant >= 0
      THEN LET t == (-b - ISqrt(discriminant)) \div (2 * a)
           IN  IF t > 0 /\ t < closestDistance THEN t ELSE -1
      ELSE -1

\* One axis of the slab loop; st.hit = FALSE is the loop's break.
\* Direction components are -1, 0 or 1, so invD = 1/c is c itself.
slabAxis(st, i, origin, direction, minBound, maxBound) ==
  IF ~st.hit THEN st
  ELSE IF Abs(direction[i]) = 0
  THEN IF origin[i] < minBound[i] \/ origin[i] > maxBound[i]
       THEN [ st EXCEPT !.hit = FALSE ]
       ELSE st
  ELSE LET invD == direction[i]
           a0 == (minBound[i] - origin[i]) * invD
           a1 == (maxBound[i] - origin[i]) * invD
           t0 == IF invD < 0 THEN a1 ELSE a0
           t1 == IF invD < 0 THEN a0 ELSE a1
           tMin == IF t0 > st.tMin THEN t0 ELSE st.tMin
           tMax == IF t1 < st.tMax THEN t1 ELSE st.tMax
       IN  [ tMin |-> tMin, tMax |-> tMax, hit |-> ~(tMin > tMax) ]

boxHitDistance(origin, direction, maxDist, obj, closestDistance) ==
  LET minBound == Sub(obj.Position, Half(obj.Scale))
      maxBound == Add(obj.Position, Half(obj.Scale))
      s0 == [ tMin |-> 0, tMax |-> maxDist, hit |-> TRUE ]
      s1 == slabAxis(s0, 1, origin, direction, minBound, maxBound)
      s2 == slabAxis(s1, 2, origin, direction, minBound, maxBound)
      s3 == slabAxis(s2, 3, origin, direction, minBound, maxBound)
  IN  IF s3.hit /\ s3.tMin > 0 /\ s3.tMin < closestDistance THEN s3.tMin ELSE -1

boxNormal(p, obj) ==
  LET c == obj.Position
      d == Half(obj.Scale)
  IN  IF p[1] - (c[1] - d[1]) = 0 THEN Vec(-1, 0, 0)
      ELSE IF p[1] - (c[1] + d[1]) = 0 THEN Vec(1, 0, 0)
      ELSE IF p[2] - (c[2] - d[2]) = 0 THEN Vec(0, -1, 0)
      ELSE IF p[2] - (c[2] + d[2]) = 0 THEN Vec(0, 1, 0)
      ELSE IF p[3] - (c[3] - d[3]) = 0 THEN Vec(0, 0, -1)
      ELSE IF p[3] - (c[3] + d[3]) = 0 THEN Vec(0, 0, 1)
      ELSE Normalize(Sub(p, c))

\* raycastObject with a hit at the distance of the closest hit so far taking
\* its place.
raycastObjectLastWins(closestHit, obj, origin, direction, maxDist, ignoreObject) ==
  IF obj.Name = ignoreObject \/ ~obj.Visible THEN closestHit
  ELSE LET hitDistance ==
             IF obj.ShapeType = "sphere"
             THEN sphereHitDistance(origin, direction, obj, closestHit.Distance + 1)
             ELSE IF obj.ShapeType = "box"
             THEN boxHitDistance(origin, direction, maxDist, obj, closestHit.Distance + 1)
             ELSE -1
       IN  IF hitDistance > 0 /\ hitDistance <= closestHit.Distance
           THEN LET point == Add(origin, Scale(direction, hitDistance))
                IN  [ Hit |-> TRUE, Distance |-> hitDistance, Point |-> point,
                      Object |-> obj.Name,
                      Normal |-> IF obj.ShapeType = "sphere"
                                 THEN Normalize(Sub(point, obj.Position))
                                 ELSE boxNormal(point, obj) ]
           ELSE closestHit

\* The body of the loop over objects.
raycastObject(closestHit, obj, origin, direction, maxDist, ignoreObject) ==
  IF obj.Name = ignoreObject \/ ~obj.Visible THEN closestHit
  ELSE LET hitDistance ==
             IF obj.ShapeType = "sphere"
             THEN sphereHitDistance(origin, direction, obj, closestHit.Distance)
             ELSE IF obj.ShapeType = "box"
             THEN boxHitDistance(origin, direction, maxDist, obj, closestHit.Distance)
             ELSE -1
       IN  IF hitDistance > 0 /\ hitDistance < closestHit.Distance
           THEN LET point == Add(origin, Scale(direction, hitDistance))
                IN  [ Hit |-> TRUE, Distance |-> hitDistance, Point |-> point,
                      Object |-> obj.Name,
                      Normal |-> IF obj.ShapeType = "sphere"
                                 THEN Normalize(Sub(point, obj.Position))
                                 ELSE boxNormal(point, obj) ]
           ELSE closestHit

RECURSIVE raycastLoop(_, _, _, _, _, _, _)
raycastLoop(closestHit, i, origin, direction, maxDist, objects, ignoreObject) ==
  IF i > Len(objects) THEN closestHit
  ELSE raycastLoop(raycastObject(closestHit, objects[i], origin, direction, maxDist,
                                 ignoreObject),
                   i + 1, origin, direction, maxDist, objects, ignoreObject)

performRaycast(origin, direction, maxDist, objects, ignoreObject) ==
  raycastLoop(NoHit(maxDist), 1, origin, direction, maxDist, objects, ignoreObject)

(***************************************************************************)
(* Ray directions and opacity                                              *)
(***************************************************************************)
\* SetFromSphericalCoords(1, phi, theta).Normalize() for ray i of n.  Ray 0 has
\* phi = acos(-1), the direction (0, -1, 0); the lattice keeps the six axis
\* directions, taken in turn.
AxisDirections ==
  << Vec(0, -1, 0), Vec(1, 0, 0), Vec(0, 0, 1), Vec(-1, 0, 0), Vec(0, 0, -1), Vec(0, 1, 0) >>
rayDirection(i, n) == AxisDirections[(i % Len(AxisDirections)) + 1]

\* initialRayOpacity * volumeAttenuationFactor^k, as the fraction n / 20^(k+1).
segmentOpacity(g, k) == [ n |-> g.initialRayOpacity * Pow(g.volumeAttenuationFactor, k), k |-> k ]
\* opacity < 0.01
opacityBelowThreshold(op) == 100 * op.n < Pow(20, op.k + 1)

\* The collidables of a reflected ray: the sound source is appended if absent.
effectiveCollidables(g, currentReflections, collidables) ==
  IF currentReflections > 0
     /\ ~(\E i \in DOMAIN collidables : collidables[i].Name = "SoundSource")
  THEN collidables \o << soundSource(g) >>
  ELSE collidables

\* The closest point of the segment to the listener centre and the test that
\* the listener is reached on this segment without an earlier hit.
listenerHitOnSegment(origin, direction, intersection, listenerPos, listenerRadius) ==
  LET rayLength == IF intersection.Hit THEN intersection.Distance ELSE MAX_RAY_DISTANCE
      endPoint == Add(origin, Scale(direction, rayLength))
      t == Dot(Sub(listenerPos, origin), direction)
      closestPointOnLine == IF t <= 0 THEN origin
                            ELSE IF t >= rayLength THEN endPoint
                            ELSE Add(origin, Scale(direction, t))
      distSq == LengthSquared(Sub(origin, closestPointOnLine))
  IN  /\ LengthLess(Sub(closestPointOnLine, listenerPos), listenerRadius)
      /\ (~intersection.Hit \/ intersection.Distance * intersection.Distance > distSq)

(***************************************************************************)
(* castRayAndGetBounceCountForEvaluation: the bounce count of the listener *)
(* hit, or -1.  The second operator is the function's body from the        *)
(* listener test on, given the intersection that performRaycast found.     *)
(***************************************************************************)
RECURSIVE castRayAndGetBounceCountForEvaluation(_, _, _, _, _, _, _)
RECURSIVE bounceCountFromIntersection(_, _, _, _, _, _, _, _)
castRayAndGetBounceCountForEvaluation(g, origin, direction, currentReflections, collidables, listenerPos, listenerRadius) ==
  IF currentReflections > g.maxReflections THEN -1
  ELSE bounceCountFromIntersection(
         g, origin, direction, currentReflections, collidables, listenerPos, listenerRadius,
         performRaycast(origin, direction, MAX_RAY_DISTANCE,
                        effectiveCollidables(g, currentReflections, collidables), NoObject))

\* bounceCountFromIntersection reporting the number of segments, not of bounces.
bounceCountFromIntersectionCountingSegments(g, origin, direction, currentReflections, collidables, listenerPos, listenerRadius, intersection) ==
  IF listenerHitOnSegment(origin, direction, intersection, listenerPos, listenerRadius)
  THEN currentReflections + 1
  ELSE IF intersection.Hit /\ currentReflections < g.maxReflections
  THEN IF opacityBelowThreshold(segmentOpacity(g, currentReflections))
       THEN -1
       ELSE castRayAndGetBounceCountForEvaluation(
              g,
              Add(intersection.Point,
                  Scale(Reflect(direction, intersection.Normal), REFLECTION_OFFSET)),
              Reflect(direction, intersection.Normal), currentReflections + 1,
              collidables, listenerPos, listenerRadius)
  ELSE -1

bounceCountFromIntersection(g, origin, direction, currentReflections, collidables, listenerPos, listenerRadius, intersection) ==
  IF listenerHitOnSegment(origin, direction, intersection, listenerPos, listenerRadius)
  THEN currentReflections
  ELSE IF intersection.Hit /\ currentReflections < g.maxReflections
  THEN IF opacityBelowThreshold(segmentOpacity(g, currentReflections))
       THEN -1
       ELSE castRayAndGetBounceCountForEvaluation(
              g,
              Add(intersection.Point,
                  Scale(Reflect(direction, intersection.Normal), REFLECTION_OFFSET)),
              Reflect(direction, intersection.Normal), currentReflections + 1,
              collidables, listenerPos, listenerRadius)
  ELSE -1

(***************************************************************************)
(* castRayAndAddVisuals: HitData and the rayVisuals list after the call.   *)
(* segmentVisuals is the function's body from the listener test on, given  *)
(* the intersection and the outcome of the listener test; segmentDrawn is  *)
(* its end, given the result of the reflected ray.                         *)
(***************************************************************************)
NoHitData == [ hitListener |-> FALSE, bounces |-> -1 ]

RECURSIVE castRayAndAddVisuals(_, _, _, _, _, _, _, _)
RECURSIVE segmentVisuals(_, _, _, _, _, _, _, _, _, _)
castRayAndAddVisuals(g, rayVisuals, origin, direction, currentReflections, collidables, listenerPos, listenerRadius) ==
  IF currentReflections > g.maxReflections
  THEN [ hitListener |-> FALSE, bounces |-> -1, rayVisuals |-> rayVisuals ]
  ELSE LET traced(intersection) ==
             segmentVisuals(g, rayVisuals, origin, direction, currentReflections,
                            collidables, listenerPos, listenerRadius, intersection,
                            listenerHitOnSegment(origin, direction, intersection,
                                                 listenerPos, listenerRadius))
       IN  traced(performRaycast(origin, direction, MAX_RAY_DISTANCE,
                                 effectiveCollidables(g, currentReflections, collidables),
                                 NoObject))

\* segmentDrawn that draws every visible segment, whatever
\* showOnlyListenerRays.
segmentDrawnWhenVisible(g, line, result0, deeper) ==
  LET hitListener == result0.hitListener \/ deeper.hitListener
      bounces == IF deeper.hitListener
                    /\ (result0.bounces = -1 \/ deeper.bounces < result0.bounces)
                 THEN deeper.bounces ELSE result0.bounces
  IN  [ hitListener |-> hitListener, bounces |-> bounces,
        rayVisuals |-> IF ~opacityBelowThreshold(line.Opacity)
                       THEN Append(deeper.rayVisuals, line)
                       ELSE deeper.rayVisuals ]

\* The segment appended to rayVisuals if it is to be drawn, after the
\* segments of the reflected ray.
segmentDrawn(g, line, result0, deeper) ==
  LET hitListener == result0.hitListener \/ deeper.hitListener
      bounces == IF deeper.hitListener
                    /\ (result0.bounces = -1 \/ deeper.bounces < result0.bounces)
                 THEN deeper.bounces ELSE result0.bounces
      shouldDraw ==
        /\ ~opacityBelowThreshold(line.Opacity)
        /\ (~g.showOnlyListenerRays \/ hitListener \/ deeper.hitListener)
  IN  [ hitListener |-> hitListener, bounces |-> bounces,
        rayVisuals |-> IF shouldDraw THEN Append(deeper.rayVisuals, line)
                       ELSE deeper.rayVisuals ]

segmentVisuals(g, rayVisuals, origin, direction, currentReflections, collidables, listenerPos, listenerRadius, intersection, listenerHitThisSegment) ==
  LET rayColorIdx == IF currentReflections >= Len(bounceColors)
                     THEN currentReflections % Len(bounceColors)
                     ELSE currentReflections
      rayLength == IF intersection.Hit THEN intersection.Distance ELSE MAX_RAY_DISTANCE
      result0 == IF listenerHitThisSegment
                 THEN [ hitListener |-> TRUE, bounces |-> currentReflections ]
                 ELSE NoHitData
      currentSegmentOpacity == IF listenerHitThisSegment THEN segmentOpacity(g, 0)
                               ELSE segmentOpacity(g, currentReflections)
      line == [ Start |-> origin, End |-> Add(origin, Scale(direction, rayLength)),
                Color |-> IF listenerHitThisSegment THEN listenerRayColor
                          ELSE bounceColors[rayColorIdx + 1],
                Opacity |-> currentSegmentOpacity ]
      reflects ==
        /\ intersection.Hit /\ currentReflections < g.maxReflections
        /\ (~opacityBelowThreshold(currentSegmentOpacity)
            \/ (g.showOnlyListenerRays /\ listenerHitThisSegment))
  IN  segmentDrawn(
        g, line, result0,
        IF reflects
        THEN castRayAndAddVisuals(
               g, rayVisuals,
               Add(intersection.Point,
                   Scale(Reflect(direction, intersection.Normal), REFLECTION_OFFSET)),
               Reflect(direction, intersection.Normal), currentReflections + 1,
               collidables, listenerPos, listenerRadius)
        ELSE [ hitListener |-> FALSE, bounces |-> -1, rayVisuals |-> rayVisuals ])

(***************************************************************************)
(* Scoring                                                                 *)
(***************************************************************************)
\* precomputeFibonacci(n): entry i of the program's table is entry i + 1 here.
RECURSIVE fibonacciFill(_, _, _)
fibonacciFill(seq, i, n) ==
  IF i > n THEN seq
  ELSE LET sum == seq[i] + seq[i - 1]
       IN  fibonacciFill(Append(seq, IF sum < 0 THEN seq[i] ELSE sum), i + 1, n)
\* precomputeFibonacci with the table starting 1, 1.
precomputeFibonacciFromOne(n) ==
  IF n < 0 THEN << >>
  ELSE IF n = 0 THEN << 1 >>
  ELSE fibonacciFill(<< 1, 1 >>, 2, n)

precomputeFibonacci(n) ==
  IF n < 0 THEN << >>
  ELSE IF n = 0 THEN << 0 >>
  ELSE fibonacciFill(<< 0, 1 >>, 2, n)

\* A sum of two ints of w bits as the machine keeps it: reduced modulo 2^w
\* into -2^(w-1) .. 2^(w-1) - 1.
WrapInt(x, w) == ((x + Pow(2, w - 1)) % Pow(2, w)) - Pow(2, w - 1)

\* fibonacciFillOfWidth storing the wrapped sum as it is.
RECURSIVE fibonacciFillOfWidthUnprotected(_, _, _, _)
fibonacciFillOfWidthUnprotected(seq, i, n, w) ==
  IF i > n THEN seq
  ELSE fibonacciFillOfWidthUnprotected(Append(seq, WrapInt(seq[i] + seq[i - 1], w)), i + 1, n, w)

\* The loop of precomputeFibonacci on ints of w bits.  fibonacciFill is this
\* loop for tables whose sums stay below 2^(w-1).
RECURSIVE fibonacciFillOfWidth(_, _, _, _)
fibonacciFillOfWidth(seq, i, n, w) ==
  IF i > n THEN seq
  ELSE LET sum == WrapInt(seq[i] + seq[i - 1], w)
       IN  fibonacciFillOfWidth(Append(seq, IF sum < 0 THEN seq[i] ELSE sum), i + 1, n, w)

precomputeFibonacciOfWidth(n, w) ==
  IF n < 0 THEN << >>
  ELSE IF n = 0 THEN << 0 >>
  ELSE fibonacciFillOfWidth(<< 0, 1 >>, 2, n, w)

fibonacciSequence == precomputeFibonacci(FIBONACCI_SCORE_CAP_INDEX)

\* Integer division of Go (truncation toward zero), for a positive divisor.
GoDiv(a, b) == IF a >= 0 THEN a \div b ELSE -((-a) \div b)

\* evaluationRayScore with the bounce count used as the index uncapped.
evaluationRayScoreUncapped(hitBounceCount) ==
  IF hitBounceCount = 0 THEN BASE_DIRECT_HIT_SCORE
  ELSE IF hitBounceCount > 0
  THEN IF hitBounceCount < Len(fibonacciSequence)
       THEN fibonacciSequence[hitBounceCount + 1] ELSE 0
  ELSE 0

\* The score one ray adds in calculateListenerScore.
evaluationRayScore(hitBounceCount) ==
  IF hitBounceCount = 0 THEN BASE_DIRECT_HIT_SCORE
  ELSE IF hitBounceCount > 0
  THEN LET fibIndex == IF hitBounceCount > FIBONACCI_SCORE_CAP_INDEX
                       THEN FIBONACCI_SCORE_CAP_INDEX ELSE hitBounceCount
       IN  IF fibIndex < Len(fibonacciSequence) THEN fibonacciSequence[fibIndex + 1] ELSE 0
  ELSE 0

\* The score one ray adds in visualizeSoundPropagation.
visualRayScore(hitData) ==
  IF hitData.hitListener
  THEN IF hitData.bounces = 0 THEN BASE_DIRECT_HIT_SCORE
       ELSE LET fibIndex == IF hitData.bounces > FIBONACCI_SCORE_CAP_INDEX
                            THEN FIBONACCI_SCORE_CAP_INDEX ELSE hitData.bounces
            IN  IF fibIndex >= 0 /\ fibIndex < Len(fibonacciSequence)
                THEN fibonacciSequence[fibIndex + 1] ELSE 0
  ELSE 0

\* evalNumRaysOf without the lower limit.
evalNumRaysOfWithoutFloor(numRays) ==
  LET n == GoDiv(numRays, 50)
  IN  IF n > 100 THEN 100 ELSE n

evalNumRaysOf(numRays) ==
  LET n == GoDiv(numRays, 50)
  IN  IF n < 10 THEN 10 ELSE IF n > 100 THEN 100 ELSE n

RECURSIVE evaluationLoop(_, _, _, _, _, _, _, _)
evaluationLoop(g, i, evalNumRays, score, testSourcePos, tempCollidables, testListenerPos, listenerRadius) ==
  IF i >= evalNumRays THEN score
  ELSE evaluationLoop(
         g, i + 1, evalNumRays,
         score + evaluationRayScore(
                   castRayAndGetBounceCountForEvaluation(
                     g, testSourcePos, rayDirection(i, evalNumRays), 0, tempCollidables,
                     testListenerPos, listenerRadius)),
         testSourcePos, tempCollidables, testListenerPos, listenerRadius)

\* tempCollidables of calculateListenerScore: every object but the listener
\* and but the sound source if it stands at testSourcePos.
evaluationCollidables(g, testSourcePos) ==
  LET keep(obj) ==
        ~(obj.Name = "SoundSource" /\ obj.Position = testSourcePos)
        /\ obj.Name # "Listener"
  IN  SelectSeq(allSceneObjects(g), keep)

calculateListenerScore(g, testSourcePos, testListenerPos) ==
  LET tempCollidables == evaluationCollidables(g, testSourcePos)
      listenerRadius == IF g.listenerPos = testListenerPos
                        THEN listener(g).Scale[1]
                        ELSE OPTIMIZATION_STEP_SIZE \div 2
  IN  evaluationLoop(g, 0, evalNumRaysOf(g.numRays), 0, testSourcePos, tempCollidables,
                     testListenerPos, listenerRadius)

(***************************************************************************)
(* OccupancyCloud                                                          *)
(***************************************************************************)
CeilDiv(a, b) == (a + b - 1) \div b
clampInt(val, min, max) == IF val < min THEN min ELSE IF val > max THEN max ELSE val

\* The cloud as built; NewOccupancyCloud ends the process on a cell size <= 0.
NewOccupancyCloud(roomMin, roomMax, cellSize) ==
  LET cells(i) == LET n == CeilDiv(roomMax[i] - roomMin[i], cellSize[i])
                  IN  IF n = 0 THEN 1 ELSE n
  IN  [ Grid |-> [ c \in (0..(cells(1) - 1)) \X (0..(cells(2) - 1)) \X (0..(cells(3) - 1))
                     |-> StateEmpty ],
        RoomMin |-> roomMin, RoomMax |-> roomMax, CellSize |-> cellSize,
        CellsX |-> cells(1), CellsY |-> cells(2), CellsZ |-> cells(3) ]

cellCounts(oc) == << oc.CellsX, oc.CellsY, oc.CellsZ >>

\* << ix, iy, iz >>, or << -1, -1, -1 >> for a position outside the cloud.
worldToGridCoords(oc, worldPos) ==
  IF \E i \in 1..3 :
       \/ worldPos[i] < oc.RoomMin[i]
       \/ worldPos[i] >= oc.RoomMin[i] + cellCounts(oc)[i] * oc.CellSize[i]
  THEN << -1, -1, -1 >>
  ELSE [ i \in 1..3 |->
           clampInt((worldPos[i] - oc.RoomMin[i]) \div oc.CellSize[i], 0,
                    cellCounts(oc)[i] - 1) ]

getCellState(oc, c) == IF c \in DOMAIN oc.Grid THEN oc.Grid[c] ELSE StateOutOfBounds

\* The index box of the loops "for ix := minIX; ix <= maxIX" over three axes.
indexBox(lo, hi) == (lo[1]..hi[1]) \X (lo[2]..hi[2]) \X (lo[3]..hi[3])

\* RoomMin + (i + 0.5) * CellSize
cellCenter(oc, c) ==
  [ i \in 1..3 |-> oc.RoomMin[i] + ((2 * c[i] + 1) * oc.CellSize[i]) \div 2 ]

RECURSIVE markStaticLoop(_, _, _)
markStaticLoop(oc, staticObjects, k) ==
  IF k > Len(staticObjects) THEN oc
  ELSE LET obj == staticObjects[k]
           lo == worldToGridCoords(oc, Sub(obj.Position, Half(obj.Scale)))
           hi == worldToGridCoords(oc, Add(obj.Position, Half(obj.Scale)))
           marked == [ c \in DOMAIN oc.Grid |->
                         IF c \in indexBox(lo, hi) THEN StateStaticObstacle ELSE oc.Grid[c] ]
       IN  markStaticLoop(IF obj.IsStatic THEN [ oc EXCEPT !.Grid = marked ] ELSE oc,
                          staticObjects, k + 1)
MarkStaticObstacles(oc, staticObjects) == markStaticLoop(oc, staticObjects, 1)

maxScale(v) == Max(v[1], Max(v[2], v[3]))

\* UpdateObjectInCloud marking every cell of the sphere, whatever it holds.
UpdateObjectInCloudOverwriting(oc, oldPosition, newPosition, objScale, newState) ==
  LET markRadius == maxScale(objScale) \div 2 + oc.CellSize[1]
      r == Vec(markRadius, markRadius, markRadius)
      oldBox == indexBox(worldToGridCoords(oc, Sub(oldPosition, r)),
                         worldToGridCoords(oc, Add(oldPosition, r)))
      newBox == indexBox(worldToGridCoords(oc, Sub(newPosition, r)),
                         worldToGridCoords(oc, Add(newPosition, r)))
      cleared == [ c \in DOMAIN oc.Grid |->
                     IF c \in oldBox /\ oc.Grid[c] = newState THEN StateEmpty ELSE oc.Grid[c] ]
      marked == [ c \in DOMAIN oc.Grid |->
                    IF /\ c \in newBox
                       /\ LengthLess(Sub(cellCenter(oc, c), newPosition), markRadius)
                    THEN newState ELSE cleared[c] ]
  IN  [ oc EXCEPT !.Grid = marked ]

UpdateObjectInCloud(oc, oldPosition, newPosition, objScale, newState) ==
  LET markRadius == maxScale(objScale) \div 2 + oc.CellSize[1]
      r == Vec(markRadius, markRadius, markRadius)
      oldBox == indexBox(worldToGridCoords(oc, Sub(oldPosition, r)),
                         worldToGridCoords(oc, Add(oldPosition, r)))
      newBox == indexBox(worldToGridCoords(oc, Sub(newPosition, r)),
                         worldToGridCoords(oc, Add(newPosition, r)))
      cleared == [ c \in DOMAIN oc.Grid |->
                     IF c \in oldBox /\ oc.Grid[c] = newState THEN StateEmpty ELSE oc.Grid[c] ]
      marked == [ c \in DOMAIN oc.Grid |->
                    IF /\ c \in newBox
                       /\ LengthLess(Sub(cellCenter(oc, c), newPosition), markRadius)
                       /\ cleared[c] = StateEmpty
                    THEN newState ELSE cleared[c] ]
  IN  [ oc EXCEPT !.Grid = marked ]

\* distanceSq < sumRadiiSq + EPSILON
spheresIntersect(pos1, radius1, pos2, radius2) ==
  LengthSquared(Sub(pos1, pos2)) <= (radius1 + radius2) * (radius1 + radius2)

IsPositionAttemptValid(oc, proposedPos, movingObjScale, movingObjType, otherObjCurrentPos, otherObjScale) ==
  LET objRadius == maxScale(movingObjScale) \div 2
      r == Vec(objRadius, objRadius, objRadius)
      box == indexBox(worldToGridCoords(oc, Sub(proposedPos, r)),
                      worldToGridCoords(oc, Add(proposedPos, r)))
  IN  \A c \in box :
        LengthLess(Sub(cellCenter(oc, c), proposedPos), objRadius)
        => /\ getCellState(oc, c) # StateOutOfBounds
           /\ getCellState(oc, c) # StateStaticObstacle
           /\ ~spheresIntersect(proposedPos, objRadius, otherObjCurrentPos,
                                Max(otherObjScale[1], otherObjScale[3]) \div 2)

(***************************************************************************)
(* RecordManager                                                           *)
(***************************************************************************)
NewRecordManager(maxRecords) == [ BestRecords |-> << >>, MaxRecords |-> maxRecords ]

\* sort.Slice on at most MaxRecords + 1 entries of which all but the last are
\* in order: the appended record moves up past every lower score.
RECURSIVE insertByScore(_, _, _)
insertByScore(records, settings, i) ==
  IF i > 1 /\ settings.Score > records[i - 1].Score
  THEN insertByScore(records, settings, i - 1)
  ELSE SubSeq(records, 1, i - 1) \o << settings >> \o SubSeq(records, i, Len(records))

\* AddRecord that drops the new record when the list is full.
AddRecordWhileRoom(rm, settings) ==
  IF Len(rm.BestRecords) >= rm.MaxRecords THEN rm
  ELSE [ rm EXCEPT !.BestRecords =
           insertByScore(rm.BestRecords, settings, Len(rm.BestRecords) + 1) ]

AddRecord(rm, settings) ==
  LET sorted == insertByScore(rm.BestRecords, settings, Len(rm.BestRecords) + 1)
  IN  [ rm EXCEPT !.BestRecords = IF Len(sorted) > rm.MaxRecords
                                  THEN SubSeq(sorted, 1, rm.MaxRecords) ELSE sorted ]

(***************************************************************************)
(* visualizeSoundPropagation.  g is the record of the program's globals;   *)
(* the result is the record after the call.                                *)
(***************************************************************************)
RECURSIVE visualizeLoop(_, _, _, _, _)
visualizeLoop(g, i, currentWeightedScore, rayVisuals, collidables) ==
  IF i >= g.numRays
  THEN [ score |-> currentWeightedScore, rayVisuals |-> rayVisuals ]
  ELSE LET hitData == castRayAndAddVisuals(g, rayVisuals, g.sourcePos,
                                           rayDirection(i, g.numRays), 0, collidables,
                                           g.listenerPos, listener(g).Scale[1])
       IN  visualizeLoop(g, i + 1, currentWeightedScore + visualRayScore(hitData),
                         hitData.rayVisuals, collidables)

currentSettingsSnapshot(g, score) ==
  [ Score |-> score, Iteration |-> g.currentLearningIteration, NumRays |-> g.numRays,
    InitialRayOpacity |-> g.initialRayOpacity, MaxReflections |-> g.maxReflections,
    VolumeAttenuationFactor |-> g.volumeAttenuationFactor,
    ExplorationFactor |-> g.explorationFactor, SoundSourcePos |-> g.sourcePos,
    ListenerPos |-> g.listenerPos, ShowOnlyListenerRays |-> g.showOnlyListenerRays ]

\* scoreRecorded with the best score raised and the snapshot left as it was.
scoreRecordedWithoutSnapshot(g, traced) ==
  IF g.learningModeActive /\ traced.score > g.globalBestScore
  THEN [ g EXCEPT !.rayVisuals = traced.rayVisuals,
                  !.listenerRayScore = traced.score,
                  !.globalBestScore = traced.score ]
  ELSE [ g EXCEPT !.rayVisuals = traced.rayVisuals, !.listenerRayScore = traced.score ]

\* The end of visualizeSoundPropagation: the score and the rays are stored
\* and, in learning mode, a score above the best becomes the new best.
scoreRecorded(g, traced) ==
  IF g.learningModeActive /\ traced.score > g.globalBestScore
  THEN [ g EXCEPT !.rayVisuals = traced.rayVisuals,
                  !.listenerRayScore = traced.score,
                  !.globalBestScore = traced.score,
                  !.recordsManager =
                     AddRecord(g.recordsManager, currentSettingsSnapshot(g, traced.score)),
                  !.globalBestSettings = currentSettingsSnapshot(g, traced.score) ]
  ELSE [ g EXCEPT !.rayVisuals = traced.rayVisuals, !.listenerRayScore = traced.score ]

\* The collidables of visualizeSoundPropagation: every object but the sound
\* source.
visualizationCollidables(g) ==
  SelectSeq(allSceneObjects(g), LAMBDA obj : obj.Name # "SoundSource")

\* The loop of visualizeSoundPropagation over the rays.
fullEvaluation(g) == visualizeLoop(g, 0, 0, << >>, visualizationCollidables(g))

visualizeSoundPropagation(g) == scoreRecorded(g, fullEvaluation(g))

(***************************************************************************)
(* findAndApplyBestMoveForLearning                                         *)
(***************************************************************************)
\* randomJumpProbability in tenths; explorationFactor in whole units.
randomJumpProbability == 1

movingObjCloudState(movingObject) ==
  IF movingObject.Name = "SoundSource" THEN StateSoundSource ELSE StateListener

\* clampToRoom without the upper limit.
clampToRoomFromBelow(oc, movingObject, p) ==
  [ i \in 1..3 |-> Max(oc.RoomMin[i] + movingObject.Scale[i] \div 2, p[i]) ]

\* math.Max(RoomMin + Scale/2, math.Min(RoomMax - Scale/2, p)) on each axis;
\* the second clamp of Y changes nothing.
clampToRoom(oc, movingObject, p) ==
  [ i \in 1..3 |-> Max(oc.RoomMin[i] + movingObject.Scale[i] \div 2,
                       Min(oc.RoomMax[i] - movingObject.Scale[i] \div 2, p[i])) ]


\* The 27 offsets in the order of the three nested loops.
offsets == << -OPTIMIZATION_STEP_SIZE, 0, OPTIMIZATION_STEP_SIZE >>
neighbourOffsets ==
  [ k \in 1..27 |-> Vec(offsets[((k - 1) \div 9) + 1], offsets[(((k - 1) \div 3) % 3) + 1],
                        offsets[((k - 1) % 3) + 1]) ]

RECURSIVE candidateLoop(_, _, _, _, _)
candidateLoop(g, movingObject, fixedObject, k, candidateTestPositions) ==
  IF k > Len(neighbourOffsets) THEN candidateTestPositions
  ELSE LET testPos == clampToRoom(g.occupancyCloud, movingObject,
                                  Add(movingObject.Position, neighbourOffsets[k]))
           skip == \/ neighbourOffsets[k] = ZeroVec
                   \/ ~IsPositionAttemptValid(g.occupancyCloud, testPos, movingObject.Scale,
                                              movingObjCloudState(movingObject),
                                              fixedObject.Position, fixedObject.Scale)
                   \/ testPos \in Range(candidateTestPositions)
       IN  candidateLoop(g, movingObject, fixedObject, k + 1,
                         IF skip THEN candidateTestPositions
                         ELSE Append(candidateTestPositions, testPos))

scoreOfMove(g, movingObject, fixedObject, pos) ==
  IF movingObject.Name = "SoundSource"
  THEN calculateListenerScore(g, pos, fixedObject.Position)
  ELSE calculateListenerScore(g, fixedObject.Position, pos)

\* betterOf that keeps only the first position of a score.
betterOfFirstOnly(best, testPos, score) ==
  IF score > best.bestScore
  THEN [ bestScore |-> score, bestPositions |-> << testPos >> ]
  ELSE best

\* The body of the loop over the candidates, for a candidate and its score.
betterOf(best, testPos, score) ==
  IF score > best.bestScore
  THEN [ bestScore |-> score, bestPositions |-> << testPos >> ]
  ELSE IF score = best.bestScore /\ testPos \notin Range(best.bestPositions)
  THEN [ best EXCEPT !.bestPositions = Append(@, testPos) ]
  ELSE best

\* The loop over the candidates: [ bestScore, bestPositions ].
RECURSIVE selectionLoop(_, _, _, _, _, _)
selectionLoop(g, movingObject, fixedObject, candidates, k, best) ==
  IF k > Len(candidates) THEN best
  ELSE selectionLoop(g, movingObject, fixedObject, candidates, k + 1,
                     betterOf(best, candidates[k],
                              scoreOfMove(g, movingObject, fixedObject, candidates[k])))

\* The offsets of a random jump: dx and dz are (rand*2 - 1) * STEP * jumpMagnitude
\* with jumpMagnitude in [2, 4) * explorationFactor, dy a quarter of that.  The
\* draws are the two ends of rand for dx and dz at the least magnitude, and
\* the middle of rand for dy.
JumpDraws == { -2, 2 }
jumpOffsets(explorationFactor) ==
  { Vec(dx * OPTIMIZATION_STEP_SIZE * explorationFactor, 0,
        dz * OPTIMIZATION_STEP_SIZE * explorationFactor) : dx \in JumpDraws, dz \in JumpDraws }

\* jumpPos for every draw of the offsets.
jumpPositionsOf(g, movingObject) ==
  { clampToRoom(g.occupancyCloud, movingObject, Add(movingObject.Position, d)) :
      d \in jumpOffsets(g.explorationFactor) }

\* choiceAfterJump that takes the jump's target without the validity check.
choiceAfterJumpUnchecked(g, movingObject, fixedObject, best) ==
  { clampToRoom(g.occupancyCloud, movingObject, Add(movingObject.Position, d)) :
      d \in jumpOffsets(g.explorationFactor) }

\* The attempt of a random jump: chosenPos for every draw of the offsets, the
\* jump's target if it is valid and one of bestPositions if not.
choiceAfterJump(g, movingObject, fixedObject, best) ==
  LET jumpPositions == jumpPositionsOf(g, movingObject)
  IN  UNION { IF IsPositionAttemptValid(g.occupancyCloud, jumpPos, movingObject.Scale,
                                        movingObjCloudState(movingObject),
                                        fixedObject.Position, fixedObject.Scale)
              THEN { jumpPos } ELSE Range(best.bestPositions) : jumpPos \in jumpPositions }

\* choiceWithoutJump without the preference for a position other than
\* originalPos.
choiceWithoutJumpAnyBest(movingObject, best) == Range(best.bestPositions)

\* No jump attempted: one of bestPositions, and one other than originalPos if
\* there is any.
choiceWithoutJump(movingObject, best) ==
  LET bestPositions == Range(best.bestPositions)
      tempBests == bestPositions \ { movingObject.Position }
  IN  IF Cardinality(bestPositions) > 1 /\ tempBests # {} THEN tempBests ELSE bestPositions

\* Whether rand.Float64() < randomJumpProbability*explorationFactor can hold,
\* and whether it can fail.
jumpCanBeAttempted(g) == randomJumpProbability * g.explorationFactor > 0
jumpCanBeOmitted(g) == randomJumpProbability * g.explorationFactor < 10

\* choiceOn that jumps whenever the score is not improved, whatever the draw.
choiceOnAlwaysJumping(g, movingObject, fixedObject, currentScore, best, attemptsJump) ==
  IF best.bestScore > currentScore THEN Range(best.bestPositions)
  ELSE choiceAfterJump(g, movingObject, fixedObject, best)

\* chosenPos, over the draws of rand.Intn and of the jump's offsets, when
\* rand.Float64() < randomJumpProbability*explorationFactor is attemptsJump.
choiceOn(g, movingObject, fixedObject, currentScore, best, attemptsJump) ==
  IF best.bestScore > currentScore THEN Range(best.bestPositions)
  ELSE IF attemptsJump THEN choiceAfterJump(g, movingObject, fixedObject, best)
  ELSE choiceWithoutJump(movingObject, best)

\* The choice of chosenPos, over all outcomes of rand, given the baseline score
\* and the outcome of the loop over the candidates.
choiceOf(g, movingObject, fixedObject, currentScore, best) ==
  UNION { choiceOn(g, movingObject, fixedObject, currentScore, best, attemptsJump) :
            attemptsJump \in { b \in BOOLEAN : IF b THEN jumpCanBeAttempted(g)
                                                 ELSE jumpCanBeOmitted(g) } }

\* The baseline score, then the candidates and their scores, then the choice.
choiceFromBaseline(g, movingObject, fixedObject, currentScore) ==
  choiceOf(g, movingObject, fixedObject, currentScore,
           selectionLoop(g, movingObject, fixedObject,
                         candidateLoop(g, movingObject, fixedObject, 1, << >>), 1,
                         [ bestScore |-> currentScore,
                           bestPositions |-> << movingObject.Position >> ]))

\* Every position the step can commit.
chosenPositions(g, movingObject, fixedObject) ==
  choiceFromBaseline(g, movingObject, fixedObject,
                     scoreOfMove(g, movingObject, fixedObject, movingObject.Position))

\* The commit of chosenPos and the update of the cloud.
findAndApplyBestMoveForLearning(g, movingObject, fixedObject, chosenPos) ==
  LET cloud == UpdateObjectInCloud(g.occupancyCloud, movingObject.Position, chosenPos,
                                   movingObject.Scale, movingObjCloudState(movingObject))
  IN  IF movingObject.Name = "SoundSource"
      THEN [ g EXCEPT !.sourcePos = chosenPos, !.occupancyCloud = cloud ]
      ELSE [ g EXCEPT !.listenerPos = chosenPos, !.occupancyCloud = cloud ]

(***************************************************************************)
(* State.  The program's globals, the runLearningCycle goroutines, the     *)
(* debounce timer, and history variables that the properties read.         *)
(***************************************************************************)
VARIABLES sourcePos, listenerPos, numRays, initialRayOpacity, maxReflections,
          volumeAttenuationFactor, explorationFactor, showOnlyListenerRays,
          learningModeActive, currentLearningIteration, globalBestScore,
          globalBestSettings, isSoundSourceTurn, listenerRayScore, rayVisuals,
          occupancyCloud, recordsManager, debounceTimer, learningCycles,
          uiEvents, lastMover, movedSinceStart, scoresSinceStart, stoppedSinceStart,
          stepsSinceStart, rayOutcomes, rayScores, lastCall,
          markedAt

programVars ==
  << sourcePos, listenerPos, numRays, initialRayOpacity, maxReflections,
     volumeAttenuationFactor, explorationFactor, showOnlyListenerRays,
     learningModeActive, currentLearningIteration, globalBestScore,
     globalBestSettings, isSoundSourceTurn, listenerRayScore, rayVisuals,
     occupancyCloud, recordsManager >>
historyVars ==
  << lastMover, movedSinceStart, scoresSinceStart, stoppedSinceStart, stepsSinceStart >>
\* The bounce counts of the rays of one evaluation and the two totals that
\* calculateListenerScore and visualizeSoundPropagation make of them.
scoringVars == << rayOutcomes, rayScores >>
\* The last call of a function that the properties examine: its name, its
\* arguments and what it returned.
NoCall == [ op |-> "none" ]
\* Where the last UpdateObjectInCloud of each role, in the calls examined on
\* their own, has marked the object.
NotMarked == [ SoundSource |-> << >>, Listener |-> << >> ]
vars ==
  << programVars, debounceTimer, learningCycles, uiEvents, historyVars, scoringVars,
     lastCall, markedAt >>

\* Bounds of the model.
maxLearningIterations == 2
MaxCycles == 2
MaxUIEvents == 1
RayCount == 6

\* Inputs of the UI callbacks.
UIPositions == { ListenerStart }
UIBounces == { 1 }

globals ==
  [ sourcePos |-> sourcePos, listenerPos |-> listenerPos, numRays |-> numRays,
    initialRayOpacity |-> initialRayOpacity, maxReflections |-> maxReflections,
    volumeAttenuationFactor |-> volumeAttenuationFactor,
    explorationFactor |-> explorationFactor,
    showOnlyListenerRays |-> showOnlyListenerRays,
    learningModeActive |-> learningModeActive,
    currentLearningIteration |-> currentLearningIteration,
    globalBestScore |-> globalBestScore, globalBestSettings |-> globalBestSettings,
    isSoundSourceTurn |-> isSoundSourceTurn, listenerRayScore |-> listenerRayScore,
    rayVisuals |-> rayVisuals, occupancyCloud |-> occupancyCloud,
    recordsManager |-> recordsManager ]

\* The globals after a handler: g is the record the handler computed.
Commit(g) ==
  /\ sourcePos' = g.sourcePos
  /\ listenerPos' = g.listenerPos
  /\ numRays' = g.numRays
  /\ initialRayOpacity' = g.initialRayOpacity
  /\ maxReflections' = g.maxReflections
  /\ volumeAttenuationFactor' = g.volumeAttenuationFactor
  /\ explorationFactor' = g.explorationFactor
  /\ showOnlyListenerRays' = g.showOnlyListenerRays
  /\ learningModeActive' = g.learningModeActive
  /\ currentLearningIteration' = g.currentLearningIteration
  /\ globalBestScore' = g.globalBestScore
  /\ globalBestSettings' = g.globalBestSettings
  /\ isSoundSourceTurn' = g.isSoundSourceTurn
  /\ listenerRayScore' = g.listenerRayScore
  /\ rayVisuals' = g.rayVisuals
  /\ occupancyCloud' = g.occupancyCloud
  /\ recordsManager' = g.recordsManager

\* The scores that visualizeSoundPropagation computed while a run was on.
Scored(g, after) ==
  scoresSinceStart' = IF g.learningModeActive
                      THEN scoresSinceStart \cup { after.listenerRayScore }
                      ELSE scoresSinceStart

\* The globals when main has set the program up.
constructed ==
  [ sourcePos |-> SourceStart, listenerPos |-> ListenerStart, numRays |-> RayCount,
    initialRayOpacity |-> 12, maxReflections |-> 3, volumeAttenuationFactor |-> 17,
    explorationFactor |-> 1, showOnlyListenerRays |-> TRUE,
    learningModeActive |-> FALSE, currentLearningIteration |-> 0,
    globalBestScore |-> -1,
    globalBestSettings |->
      [ Score |-> 0, Iteration |-> 0, NumRays |-> 0, InitialRayOpacity |-> 0,
        MaxReflections |-> 0, VolumeAttenuationFactor |-> 0, ExplorationFactor |-> 0,
        SoundSourcePos |-> ZeroVec, ListenerPos |-> ZeroVec,
        ShowOnlyListenerRays |-> FALSE ],
    isSoundSourceTurn |-> TRUE, listenerRayScore |-> 0, rayVisuals |-> << >>,
    occupancyCloud |->
      MarkStaticObstacles(NewOccupancyCloud(SceneRoomMin, SceneRoomMax, SceneCellSize),
                          staticSceneObjects),
    recordsManager |-> NewRecordManager(10) ]

\* The program once the first drawing, which main schedules through the
\* debounce timer, has been made.
Init ==
  /\ \E g \in { visualizeSoundPropagation(constructed) } :
       /\ sourcePos = g.sourcePos
       /\ listenerPos = g.listenerPos
       /\ numRays = g.numRays
       /\ initialRayOpacity = g.initialRayOpacity
       /\ maxReflections = g.maxReflections
       /\ volumeAttenuationFactor = g.volumeAttenuationFactor
       /\ explorationFactor = g.explorationFactor
       /\ showOnlyListenerRays = g.showOnlyListenerRays
       /\ learningModeActive = g.learningModeActive
       /\ currentLearningIteration = g.currentLearningIteration
       /\ globalBestScore = g.globalBestScore
       /\ globalBestSettings = g.globalBestSettings
       /\ isSoundSourceTurn = g.isSoundSourceTurn
       /\ listenerRayScore = g.listenerRayScore
       /\ rayVisuals = g.rayVisuals
       /\ occupancyCloud = g.occupancyCloud
       /\ recordsManager = g.recordsManager
  /\ debounceTimer = FALSE
  /\ learningCycles = << >>
  /\ uiEvents = 0
  /\ lastMover = "none"
  /\ movedSinceStart = {}
  /\ scoresSinceStart = {}
  /\ stoppedSinceStart = FALSE
  /\ stepsSinceStart = 0
  /\ rayOutcomes = << >>
  /\ rayScores = [ evaluation |-> 0, visual |-> 0 ]
  /\ lastCall = NoCall
  /\ markedAt = NotMarked

(***************************************************************************)
(* UI callbacks                                                            *)
(***************************************************************************)
\* UpdateObjectInCloud of both objects at their own positions.
confirmObjectsInCloud(g) ==
  LET c1 == UpdateObjectInCloud(g.occupancyCloud, g.sourcePos, g.sourcePos,
                                soundSource(g).Scale, StateSoundSource)
  IN  [ g EXCEPT !.occupancyCloud =
          UpdateObjectInCloud(c1, g.listenerPos, g.listenerPos, listener(g).Scale,
                              StateListener) ]

\* startLearningMode that leaves the turn as the last run left it.
startLearningModeKeepingTurn(g) ==
  confirmObjectsInCloud(
    [ g EXCEPT !.learningModeActive = TRUE,
               !.currentLearningIteration = 0,
               !.globalBestScore = -1,
               !.globalBestSettings =
                  [ currentSettingsSnapshot(g, -1) EXCEPT !.Iteration = 0 ] ])

startLearningMode(g) ==
  confirmObjectsInCloud(
    [ g EXCEPT !.learningModeActive = TRUE,
               !.currentLearningIteration = 0,
               !.globalBestScore = -1,
               !.globalBestSettings =
                  [ currentSettingsSnapshot(g, -1) EXCEPT !.Iteration = 0 ],
               !.isSoundSourceTurn = TRUE ])

\* goStartLearningMode past its test of learningModeActive.
learningStarted ==
  /\ Len(learningCycles) < MaxCycles
  /\ \E after \in { startLearningMode(globals) } : Commit(after)
  /\ learningCycles' = Append(learningCycles, [ pc |-> "ready", movesAfterStop |-> -1 ])
  /\ lastMover' = "none"
  /\ movedSinceStart' = {}
  /\ scoresSinceStart' = {}
  /\ stoppedSinceStart' = FALSE
  /\ stepsSinceStart' = 0
  /\ UNCHANGED << debounceTimer, uiEvents, scoringVars, markedAt >>

goStartLearningMode ==
  IF learningModeActive
  THEN UNCHANGED vars
  ELSE learningStarted /\ UNCHANGED lastCall

\* goStopLearningMode past its test of learningModeActive.  A cycle that has
\* not finished learns of the stop at its next check.
learningStopped ==
  /\ learningModeActive' = FALSE
  /\ learningCycles' =
       [ c \in DOMAIN learningCycles |->
           IF learningCycles[c].pc # "finished" /\ learningCycles[c].movesAfterStop = -1
           THEN [ learningCycles[c] EXCEPT !.movesAfterStop = 0 ]
           ELSE learningCycles[c] ]
  /\ stoppedSinceStart' = TRUE
  /\ UNCHANGED << sourcePos, listenerPos, numRays, initialRayOpacity, maxReflections,
                  volumeAttenuationFactor, explorationFactor, showOnlyListenerRays,
                  currentLearningIteration, globalBestScore, globalBestSettings,
                  isSoundSourceTurn, listenerRayScore, rayVisuals, occupancyCloud,
                  recordsManager, debounceTimer, uiEvents, lastMover,
                  movedSinceStart, scoresSinceStart, stepsSinceStart, scoringVars, markedAt >>

goStopLearningMode ==
  IF ~learningModeActive
  THEN UNCHANGED vars
  ELSE learningStopped /\ UNCHANGED lastCall

\* The position callbacks redraw at once only outside learning mode.
updatePositionAndVisualize(g) ==
  IF ~g.learningModeActive THEN visualizeSoundPropagation(g) ELSE g

goUpdateSoundSourcePositionAndVisualize ==
  /\ uiEvents < MaxUIEvents
  /\ \E p \in UIPositions :
       \E after \in { updatePositionAndVisualize([ globals EXCEPT !.sourcePos = p ]) } :
         Commit(after)
  /\ uiEvents' = uiEvents + 1
  /\ UNCHANGED << debounceTimer, learningCycles, historyVars, scoringVars, lastCall, markedAt >>

goUpdateListenerPositionAndVisualize ==
  /\ uiEvents < MaxUIEvents
  /\ \E p \in UIPositions :
       \E after \in { updatePositionAndVisualize([ globals EXCEPT !.listenerPos = p ]) } :
         Commit(after)
  /\ uiEvents' = uiEvents + 1
  /\ UNCHANGED << debounceTimer, learningCycles, historyVars, scoringVars, lastCall, markedAt >>

\* goUpdateSliderValue("maxBounces", value): debounced outside learning mode,
\* drawn at once within it.
goUpdateSliderValue ==
  /\ uiEvents < MaxUIEvents
  /\ \E value \in UIBounces :
       \E g \in { [ globals EXCEPT !.maxReflections = value ] } :
       \E after \in { IF g.learningModeActive THEN visualizeSoundPropagation(g) ELSE g } :
           /\ Commit(after)
           /\ debounceTimer' = IF g.learningModeActive THEN debounceTimer ELSE TRUE
           /\ Scored(g, after)
  /\ uiEvents' = uiEvents + 1
  /\ UNCHANGED << learningCycles, lastMover, movedSinceStart, stoppedSinceStart,
                  stepsSinceStart, scoringVars, lastCall, markedAt >>

\* time.AfterFunc(d, visualizeSoundPropagation) comes due.
debounceTimerFires ==
  /\ debounceTimer
  /\ \E after \in { visualizeSoundPropagation(globals) } :
       Commit(after) /\ Scored(globals, after)
  /\ debounceTimer' = FALSE
  /\ UNCHANGED << learningCycles, uiEvents, lastMover, movedSinceStart, stoppedSinceStart,
                  stepsSinceStart, scoringVars, lastCall, markedAt >>

(***************************************************************************)
(* runLearningCycle.  A goroutine runs from one time.Sleep to the next     *)
(* without interruption; pc is "ready" before its first instruction,       *)
(* "sleeping" inside time.Sleep and "finished" after its return.           *)
(***************************************************************************)
\* The globals with which the cycle resumes: a new cycle first confirms the
\* two objects in the cloud.
resumed(cycle, g) == IF cycle.pc = "ready" THEN confirmObjectsInCloud(g) ELSE g

\* continues without the iteration cap.
continuesWithoutCap(cycle, g) ==
  /\ cycle.pc \in { "ready", "sleeping" }
  /\ g.learningModeActive

\* The cycle goes round the loop once more: not stopped during the sleep and
\* the loop condition holds.
continues(cycle, g) ==
  /\ cycle.pc \in { "ready", "sleeping" }
  /\ g.learningModeActive
  /\ g.currentLearningIteration < maxLearningIterations

\* movingObjectOf with the turn ignored.
movingObjectOfSourceOnly(g) == soundSource(g)

movingObjectOf(g) == IF g.isSoundSourceTurn THEN soundSource(g) ELSE listener(g)

fixedObjectOf(g) == IF g.isSoundSourceTurn THEN listener(g) ELSE soundSource(g)

\* One pass of the loop body up to time.Sleep.
learningIteration(g, chosenPos) ==
  LET counted == [ g EXCEPT !.currentLearningIteration = @ + 1 ]
      drawn == visualizeSoundPropagation(
                 findAndApplyBestMoveForLearning(counted, movingObjectOf(g),
                                                 fixedObjectOf(g), chosenPos))
  IN  [ drawn EXCEPT !.isSoundSourceTurn = ~@ ]

\* The statements after the loop.
learningFinish(g) ==
  LET g1 == [ g EXCEPT !.learningModeActive = FALSE ]
      best == g1.globalBestSettings
      c1 == UpdateObjectInCloud(g1.occupancyCloud, g1.sourcePos, best.SoundSourcePos,
                                soundSource(g1).Scale, StateSoundSource)
      c2 == UpdateObjectInCloud(c1, g1.listenerPos, best.ListenerPos, listener(g1).Scale,
                                StateListener)
  IN  IF best.Score > -1
      THEN visualizeSoundPropagation(
             [ g1 EXCEPT !.sourcePos = best.SoundSourcePos,
                         !.listenerPos = best.ListenerPos,
                         !.occupancyCloud = c2,
                         !.numRays = best.NumRays,
                         !.initialRayOpacity = best.InitialRayOpacity,
                         !.maxReflections = best.MaxReflections,
                         !.volumeAttenuationFactor = best.VolumeAttenuationFactor,
                         !.explorationFactor = best.ExplorationFactor,
                         !.showOnlyListenerRays = best.ShowOnlyListenerRays ])
      ELSE g1

runLearningCycleStep(c) ==
  \E cycle \in { learningCycles[c] } :
  \E g \in { resumed(cycle, globals) } :
      /\ continues(cycle, g)
      /\ \E chosenPos \in chosenPositions(g, movingObjectOf(g), fixedObjectOf(g)) :
         \E after \in { learningIteration(g, chosenPos) } :
           Commit(after) /\ Scored(g, after)
      /\ learningCycles' =
           [ learningCycles EXCEPT ![c] =
               [ pc |-> "sleeping",
                 movesAfterStop |-> IF cycle.movesAfterStop = -1 THEN -1
                                    ELSE cycle.movesAfterStop + 1 ] ]
      /\ lastMover' = movingObjectOf(g).Name
      /\ movedSinceStart' = movedSinceStart \cup { c }
      /\ stepsSinceStart' = stepsSinceStart + 1
      /\ UNCHANGED << debounceTimer, uiEvents, stoppedSinceStart, scoringVars, lastCall, markedAt >>

runLearningCycleFinish(c) ==
  \E cycle \in { learningCycles[c] } :
  \E g \in { resumed(cycle, globals) } :
      /\ cycle.pc \in { "ready", "sleeping" }
      /\ ~continues(cycle, g)
      /\ \E after \in { learningFinish(g) } : Commit(after)
      /\ learningCycles' = [ learningCycles EXCEPT ![c].pc = "finished" ]
      /\ UNCHANGED << debounceTimer, uiEvents, historyVars, scoringVars, lastCall, markedAt >>

Next ==
  \/ goStartLearningMode
  \/ goStopLearningMode
  \/ goUpdateSoundSourcePositionAndVisualize
  \/ goUpdateListenerPositionAndVisualize
  \/ goUpdateSliderValue
  \/ debounceTimerFires
  \/ \E c \in DOMAIN learningCycles : runLearningCycleStep(c)
  \/ \E c \in DOMAIN learningCycles : runLearningCycleFinish(c)

Spec == Init /\ [][Next]_vars

\* The scheduler resumes a goroutine whose time.Sleep has run out.
cycleRuns(c) ==
  /\ c \in DOMAIN learningCycles
  /\ (runLearningCycleStep(c) \/ runLearningCycleFinish(c))

\* cycleRuns(c) is enabled exactly when cycle c has started and not returned.
cycleIsLive(c) ==
  /\ c \in DOMAIN learningCycles
  /\ learningCycles[c].pc \in { "ready", "sleeping" }

\* WF_vars(cycleRuns(c)) with ENABLED <<cycleRuns(c)>>_vars written as
\* cycleIsLive(c).
cycleIsScheduled(c) == []<>(~cycleIsLive(c)) \/ []<><<cycleRuns(c)>>_vars

FairSpec == Spec /\ \A c \in 1..MaxCycles : cycleIsScheduled(c)

(***************************************************************************)
(* The scoring of the rays of one evaluation, whatever the tracer returns  *)
(* for them: the loop bodies of calculateListenerScore and of              *)
(* visualizeSoundPropagation applied to the same bounce counts.            *)
(***************************************************************************)
MaxScoredRays == 3
RayOutcomes == { -1, 0, 1, 2, 19, 20, 21, 25 }

scoreRay(hitBounceCount) ==
  /\ Len(rayOutcomes) < MaxScoredRays
  /\ rayOutcomes' = Append(rayOutcomes, hitBounceCount)
  /\ rayScores' =
       [ evaluation |-> rayScores.evaluation + evaluationRayScore(hitBounceCount),
         visual |-> rayScores.visual
                    + visualRayScore([ hitListener |-> hitBounceCount >= 0,
                                       bounces |-> hitBounceCount ]) ]
  /\ UNCHANGED << programVars, debounceTimer, learningCycles, uiEvents, historyVars,
                  lastCall, markedAt >>

ScoreNext == \E hitBounceCount \in RayOutcomes : scoreRay(hitBounceCount)

ScoreSpec == Init /\ [][ScoreNext]_vars

(***************************************************************************)
(* Calls of calculateListenerScore and of performRaycast on their own, for *)
(* placements of the two movable objects that the position callbacks can   *)
(* produce.                                                                *)
(***************************************************************************)
\* Placements along the corridor, on both sides of the pillar.
ProbePositions == { ListenerStart, Vec(125, 25, 25), Vec(325, 25, 25) }
ProbeMaxDists == { OPTIMIZATION_STEP_SIZE, MAX_RAY_DISTANCE }

\* The program's globals are those of the record g.
globalsAre(g) ==
  /\ sourcePos = g.sourcePos
  /\ listenerPos = g.listenerPos
  /\ numRays = g.numRays
  /\ initialRayOpacity = g.initialRayOpacity
  /\ maxReflections = g.maxReflections
  /\ volumeAttenuationFactor = g.volumeAttenuationFactor
  /\ explorationFactor = g.explorationFactor
  /\ showOnlyListenerRays = g.showOnlyListenerRays
  /\ learningModeActive = g.learningModeActive
  /\ currentLearningIteration = g.currentLearningIteration
  /\ globalBestScore = g.globalBestScore
  /\ globalBestSettings = g.globalBestSettings
  /\ isSoundSourceTurn = g.isSoundSourceTurn
  /\ listenerRayScore = g.listenerRayScore
  /\ rayVisuals = g.rayVisuals
  /\ occupancyCloud = g.occupancyCloud
  /\ recordsManager = g.recordsManager

\* Outside any run and with nothing else pending.
noRunYet ==
  /\ debounceTimer = FALSE
  /\ learningCycles = << >>
  /\ uiEvents = 0
  /\ lastMover = "none"
  /\ movedSinceStart = {}
  /\ scoresSinceStart = {}
  /\ stoppedSinceStart = FALSE
  /\ stepsSinceStart = 0
  /\ rayOutcomes = << >>
  /\ rayScores = [ evaluation |-> 0, visual |-> 0 ]
  /\ lastCall = NoCall
  /\ markedAt = NotMarked

\* The program after the two position callbacks have placed the objects.
EvalInit ==
  /\ \E s \in ProbePositions : \E l \in ProbePositions :
       globalsAre(visualizeSoundPropagation(
                    [ constructed EXCEPT !.sourcePos = s, !.listenerPos = l ]))
  /\ noRunYet

\* calculateListenerScore with its score stored as visualizeSoundPropagation
\* stores its own.
calculateListenerScoreStoringScore(g, testSourcePos, testListenerPos) ==
  [ g EXCEPT !.listenerRayScore = calculateListenerScore(g, testSourcePos, testListenerPos) ]

\* The globals after calculateListenerScore: the function and the tracer it
\* calls assign to their locals only, and the lists they build are new.
calculateListenerScoreEffect(g, testSourcePos, testListenerPos) == g

calculateListenerScoreCalled(testSourcePos, testListenerPos) ==
  /\ \E after \in { calculateListenerScoreEffect(globals, testSourcePos, testListenerPos) } :
       Commit(after)
  /\ lastCall' = [ op |-> "calculateListenerScore", testSourcePos |-> testSourcePos,
                   testListenerPos |-> testListenerPos,
                   result |-> calculateListenerScore(globals, testSourcePos,
                                                     testListenerPos) ]
  /\ UNCHANGED << debounceTimer, learningCycles, uiEvents, historyVars, scoringVars,
                  markedAt >>

\* The objects list with one object made invisible.
withHidden(objects, hidden) ==
  [ k \in DOMAIN objects |->
      IF objects[k].Name = hidden THEN [ objects[k] EXCEPT !.Visible = FALSE ]
      ELSE objects[k] ]

performRaycastCalled(origin, direction, maxDist, hidden, ignoreObject) ==
  /\ lastCall' =
       [ op |-> "performRaycast", origin |-> origin, direction |-> direction,
         maxDist |-> maxDist, objects |-> withHidden(allSceneObjects(globals), hidden),
         ignoreObject |-> ignoreObject,
         result |-> performRaycast(origin, direction, maxDist,
                                   withHidden(allSceneObjects(globals), hidden),
                                   ignoreObject) ]
  /\ UNCHANGED << programVars, debounceTimer, learningCycles, uiEvents, historyVars,
                  scoringVars, markedAt >>

EvalNext ==
  \/ \E testSourcePos \in ProbePositions : \E testListenerPos \in ProbePositions :
       calculateListenerScoreCalled(testSourcePos, testListenerPos)
  \/ \E origin \in ProbePositions : \E direction \in Range(AxisDirections) :
     \E maxDist \in ProbeMaxDists : \E hidden \in { NoObject, "Pillar" } :
     \E ignoreObject \in { NoObject, "SoundSource" } :
       performRaycastCalled(origin, direction, maxDist, hidden, ignoreObject)

EvalSpec == EvalInit /\ [][EvalNext]_vars

(***************************************************************************)
(* Calls of the occupancy cloud's functions on their own, in a run that    *)
(* goStartLearningMode has just started, for clouds of two cell sizes      *)
(* built over two lists of static objects.                                 *)
(***************************************************************************)
MaxCloudCalls == 3
\* The scene's cells, and cells that hold a movable object several times.
CloudCellSizes == { SceneCellSize, Vec(150, 150, 150) }
\* A shelf high on the wall at the room's minimum X, reaching through it.
wallShelfObjects ==
  << SceneObject("Shelf", "box", Vec(0, 115, 75), Vec(60, 60, 140), TRUE) >>
CloudObstacleLists == { staticSceneObjects, wallShelfObjects }
\* Positions in the room: on the cell centres' lattice, between two cell
\* centres, and touching the room's maximum bounds.
CloudPositions == { ListenerStart, Vec(125, 25, 25), Vec(50, 25, 25), Vec(425, 125, 125) }
CloudRoles == { StateSoundSource, StateListener }

\* The globals after main's set-up, the first drawing and goStartLearningMode,
\* for a cloud of the given cell size over the given static objects.
startedOver(cellSize, staticObjects) ==
  startLearningMode(
    [ visualizeSoundPropagation(constructed) EXCEPT
        !.occupancyCloud =
           MarkStaticObstacles(NewOccupancyCloud(SceneRoomMin, SceneRoomMax, cellSize),
                               staticObjects) ])

CloudInit ==
  /\ \E cellSize \in CloudCellSizes : \E staticObjects \in CloudObstacleLists :
       /\ globalsAre(startedOver(cellSize, staticObjects))
       /\ lastCall = [ op |-> "MarkStaticObstacles", staticObjects |-> staticObjects,
                       calls |-> 0 ]
  /\ markedAt = [ SoundSource |-> SourceStart, Listener |-> ListenerStart ]
  /\ debounceTimer = FALSE
  /\ learningCycles = << [ pc |-> "ready", movesAfterStop |-> -1 ] >>
  /\ uiEvents = 0
  /\ lastMover = "none"
  /\ movedSinceStart = {}
  /\ scoresSinceStart = {}
  /\ stoppedSinceStart = FALSE
  /\ stepsSinceStart = 0
  /\ rayOutcomes = << >>
  /\ rayScores = [ evaluation |-> 0, visual |-> 0 ]

roleName(state) == IF state = StateSoundSource THEN "SoundSource" ELSE "Listener"

UpdateObjectInCloudCalled(oldPosition, newPosition, newState) ==
  /\ lastCall.calls < MaxCloudCalls
  /\ occupancyCloud' = UpdateObjectInCloud(occupancyCloud, oldPosition, newPosition,
                                           MovableScale, newState)
  /\ lastCall' = [ op |-> "UpdateObjectInCloud", oldPosition |-> oldPosition,
                   newPosition |-> newPosition, newState |-> newState,
                   calls |-> lastCall.calls + 1 ]
  /\ markedAt' = [ markedAt EXCEPT ![roleName(newState)] = newPosition ]
  /\ UNCHANGED << sourcePos, listenerPos, numRays, initialRayOpacity, maxReflections,
                  volumeAttenuationFactor, explorationFactor, showOnlyListenerRays,
                  learningModeActive, currentLearningIteration, globalBestScore,
                  globalBestSettings, isSoundSourceTurn, listenerRayScore, rayVisuals,
                  recordsManager, debounceTimer, learningCycles, uiEvents, historyVars,
                  scoringVars >>

IsPositionAttemptValidCalled(proposedPos, movingObjType, otherObjCurrentPos) ==
  /\ lastCall' = [ op |-> "IsPositionAttemptValid", proposedPos |-> proposedPos,
                   movingObjType |-> movingObjType,
                   otherObjCurrentPos |-> otherObjCurrentPos,
                   result |-> IsPositionAttemptValid(occupancyCloud, proposedPos,
                                                     MovableScale, movingObjType,
                                                     otherObjCurrentPos, MovableScale),
                   calls |-> lastCall.calls ]
  /\ UNCHANGED << programVars, debounceTimer, learningCycles, uiEvents, historyVars,
                  scoringVars, markedAt >>

CloudNext ==
  \/ \E oldPosition \in CloudPositions : \E newPosition \in CloudPositions :
     \E newState \in CloudRoles :
       UpdateObjectInCloudCalled(oldPosition, newPosition, newState)
  \/ \E proposedPos \in CloudPositions : \E movingObjType \in CloudRoles :
     \E otherObjCurrentPos \in CloudPositions :
       IsPositionAttemptValidCalled(proposedPos, movingObjType, otherObjCurrentPos)

CloudSpec == CloudInit /\ [][CloudNext]_vars

(***************************************************************************)
(* Panics.  An optimizer step in which a panic is raised at one of four    *)
(* places: while the candidates are scored (before the commit of           *)
(* optimization.go:226), in UpdateObjectInCloud before it changes a cell   *)
(* (after the commit), in the ray loop of visualizeSoundPropagation, and   *)
(* in AddRecord (after globalBestScore has been assigned).  The first two  *)
(* unwind to the deferred recoverFromPanic of runLearningCycle, the last   *)
(* two to the deferred recoverFromPanic of visualizeSoundPropagation,      *)
(* after which runLearningCycle goes on.  lastCall records the panic.      *)
(* The runs are started and stopped by the user and not otherwise          *)
(* interfered with.                                                        *)
(***************************************************************************)
MaxFaults == 1
FaultPoints == { "scoring", "gridUpdate", "evaluation", "snapshot" }

faultsSoFar == IF lastCall.op = "panic" THEN lastCall.faults ELSE 0

recoverFromPanic(g, funcName) ==
  IF funcName \in { "runLearningCycle", "findAndApplyBestMoveForLearning" }
  THEN [ g EXCEPT !.learningModeActive = FALSE ]
  ELSE g

\* The commit of chosenPos alone.
moveCommitted(g, movingObject, chosenPos) ==
  IF movingObject.Name = "SoundSource"
  THEN [ g EXCEPT !.sourcePos = chosenPos ]
  ELSE [ g EXCEPT !.listenerPos = chosenPos ]

\* visualizeSoundPropagation up to the call of AddRecord: the score is
\* stored and a new best score is assigned to globalBestScore.
scoreStored(g, traced) ==
  IF g.learningModeActive /\ traced.score > g.globalBestScore
  THEN [ g EXCEPT !.rayVisuals = traced.rayVisuals,
                  !.listenerRayScore = traced.score,
                  !.globalBestScore = traced.score ]
  ELSE [ g EXCEPT !.rayVisuals = traced.rayVisuals, !.listenerRayScore = traced.score ]

\* The globals when the pass of the loop body in which the panic is raised
\* has come to its end: the return of runLearningCycle or time.Sleep.
learningIterationPanics(g, chosenPos, point) ==
  LET counted == [ g EXCEPT !.currentLearningIteration = @ + 1 ]
      moved == findAndApplyBestMoveForLearning(counted, movingObjectOf(g),
                                               fixedObjectOf(g), chosenPos)
  IN  CASE point = "scoring" -> recoverFromPanic(counted, "runLearningCycle")
        [] point = "gridUpdate" ->
             recoverFromPanic(moveCommitted(counted, movingObjectOf(g), chosenPos),
                              "runLearningCycle")
        [] point = "evaluation" ->
             [ recoverFromPanic([ moved EXCEPT !.rayVisuals = << >> ],
                                "visualizeSoundPropagation")
               EXCEPT !.isSoundSourceTurn = ~@ ]
        [] point = "snapshot" ->
             [ recoverFromPanic(scoreStored(moved, fullEvaluation(moved)),
                                "visualizeSoundPropagation")
               EXCEPT !.isSoundSourceTurn = ~@ ]

runLearningCyclePanics(c, point) ==
  \E cycle \in { learningCycles[c] } :
  \E g \in { resumed(cycle, globals) } :
      /\ faultsSoFar < MaxFaults
      /\ continues(cycle, g)
      /\ \E chosenPos \in chosenPositions(g, movingObjectOf(g), fixedObjectOf(g)) :
         \E after \in { learningIterationPanics(g, chosenPos, point) } :
           /\ point = "snapshot" => after.globalBestScore > g.globalBestScore
           /\ Commit(after)
           /\ scoresSinceStart' = IF point = "snapshot"
                                  THEN scoresSinceStart \cup { after.listenerRayScore }
                                  ELSE scoresSinceStart
      /\ learningCycles' =
           [ learningCycles EXCEPT ![c] =
               [ pc |-> IF point \in { "scoring", "gridUpdate" }
                        THEN "finished" ELSE "sleeping",
                 movesAfterStop |-> IF cycle.movesAfterStop = -1 \/ point = "scoring"
                                    THEN cycle.movesAfterStop
                                    ELSE cycle.movesAfterStop + 1 ] ]
      /\ lastMover' = IF point = "scoring" THEN lastMover ELSE movingObjectOf(g).Name
      /\ movedSinceStart' = IF point = "scoring" THEN movedSinceStart
                            ELSE movedSinceStart \cup { c }
      /\ stepsSinceStart' = IF point = "scoring" THEN stepsSinceStart
                            ELSE stepsSinceStart + 1
      /\ lastCall' = [ op |-> "panic", at |-> point, faults |-> faultsSoFar + 1 ]
      /\ UNCHANGED << debounceTimer, uiEvents, stoppedSinceStart, scoringVars, markedAt >>

FaultNext ==
  \/ goStartLearningMode
  \/ goStopLearningMode
  \/ \E c \in DOMAIN learningCycles : runLearningCycleStep(c)
  \/ \E c \in DOMAIN learningCycles : runLearningCycleFinish(c)
  \/ \E c \in DOMAIN learningCycles : \E point \in FaultPoints :
       runLearningCyclePanics(c, point)

FaultSpec == Init /\ [][FaultNext]_vars

(***************************************************************************)
(* Calls of the functions that read no shared state: precomputeFibonacci,  *)
(* NewOccupancyCloud and Vector3.Reflect, each for every argument of a     *)
(* small set.  lastCall records the call and its result.                   *)
(***************************************************************************)
\* The table lengths asked for.
TableSizes == -1..FIBONACCI_SCORE_CAP_INDEX

precomputeFibonacciCalled(n) ==
  /\ lastCall' = [ op |-> "precomputeFibonacci", n |-> n, result |-> precomputeFibonacci(n) ]
  /\ UNCHANGED << programVars, debounceTimer, learningCycles, uiEvents, historyVars,
                  scoringVars, markedAt >>

\* Room corners and cell sizes: regular, with a zero on an axis and with a
\* negative value on an axis.
CornerChoices == { Vec(100, 100, 100), Vec(0, 100, 100), Vec(100, -30, 100), Vec(100, 100, -100) }
CellSizeChoices == { Vec(50, 50, 50), Vec(0, 50, 50), Vec(50, -50, 50) }

\* How a call of NewOccupancyCloud ends: in log.Fatalf on a cell size <= 0,
\* in the panic of make on a negative number of cells, or with a cloud.
NewOccupancyCloudEnd(roomMin, roomMax, cellSize) ==
  IF \E i \in 1..3 : cellSize[i] <= 0 THEN "log.Fatalf"
  ELSE IF \E i \in 1..3 : CeilDiv(roomMax[i] - roomMin[i], cellSize[i]) < 0 THEN "panic"
  ELSE "returned"

NewOccupancyCloudCalled(roomMin, roomMax, cellSize) ==
  /\ lastCall' = [ op |-> "NewOccupancyCloud", roomMin |-> roomMin, roomMax |-> roomMax,
                   cellSize |-> cellSize,
                   end |-> NewOccupancyCloudEnd(roomMin, roomMax, cellSize),
                   cells |-> IF NewOccupancyCloudEnd(roomMin, roomMax, cellSize) = "returned"
                             THEN cellCounts(NewOccupancyCloud(roomMin, roomMax, cellSize))
                             ELSE << >> ]
  /\ UNCHANGED << programVars, debounceTimer, learningCycles, uiEvents, historyVars,
                  scoringVars, markedAt >>

\* Directions of length 1 in units of a third: the axis directions and the
\* directions with components 1/3, 2/3, 2/3 in any order and sign.
ThirdsPerUnit == 3
UnitDirections ==
  { v \in (-ThirdsPerUnit..ThirdsPerUnit) \X (-ThirdsPerUnit..ThirdsPerUnit)
          \X (-ThirdsPerUnit..ThirdsPerUnit) :
      LengthSquared(v) = ThirdsPerUnit * ThirdsPerUnit }

\* ReflectCalled with the normal component removed, not reversed.
ReflectCalledProjecting(v, normal) ==
  /\ lastCall' = [ op |-> "Reflect", v |-> v, normal |-> normal,
                   result |-> Sub(v, Scale(normal, Dot(v, normal))) ]
  /\ UNCHANGED << programVars, debounceTimer, learningCycles, uiEvents, historyVars,
                  scoringVars, markedAt >>

\* v is in thirds, normal is one of the axis directions, in whole units.
ReflectCalled(v, normal) ==
  /\ lastCall' = [ op |-> "Reflect", v |-> v, normal |-> normal,
                   result |-> Reflect(v, normal) ]
  /\ UNCHANGED << programVars, debounceTimer, learningCycles, uiEvents, historyVars,
                  scoringVars, markedAt >>

CallNext ==
  \/ \E n \in TableSizes : precomputeFibonacciCalled(n)
  \/ \E roomMax \in CornerChoices : \E cellSize \in CellSizeChoices :
       NewOccupancyCloudCalled(ZeroVec, roomMax, cellSize)
  \/ \E v \in UnitDirections : \E normal \in Range(AxisDirections) : ReflectCalled(v, normal)

CallSpec == Init /\ [][CallNext]_vars

(***************************************************************************)
(* The record list on its own: AddRecord with snapshots of the current     *)
(* settings, the callbacks that change the settings, and                   *)
(* goApplyRecordedSettingsByIndex.  lastCall keeps the scores added so far *)
(* and the settings that were current at each addition.                    *)
(***************************************************************************)
RecordCapacity == 2
MaxRecordCalls == 3
RecordScores == 1..3
RecordIndices == -1..RecordCapacity

\* The six settings and the two positions that a record carries.
settingsOf(g) ==
  [ numRays |-> g.numRays, initialRayOpacity |-> g.initialRayOpacity,
    maxReflections |-> g.maxReflections,
    volumeAttenuationFactor |-> g.volumeAttenuationFactor,
    explorationFactor |-> g.explorationFactor,
    showOnlyListenerRays |-> g.showOnlyListenerRays,
    sourcePos |-> g.sourcePos, listenerPos |-> g.listenerPos ]

RecordInit ==
  /\ globalsAre([ visualizeSoundPropagation(constructed)
                    EXCEPT !.recordsManager = NewRecordManager(RecordCapacity) ])
  /\ debounceTimer = FALSE
  /\ learningCycles = << >>
  /\ uiEvents = 0
  /\ lastMover = "none"
  /\ movedSinceStart = {}
  /\ scoresSinceStart = {}
  /\ stoppedSinceStart = FALSE
  /\ stepsSinceStart = 0
  /\ rayOutcomes = << >>
  /\ rayScores = [ evaluation |-> 0, visual |-> 0 ]
  /\ lastCall = [ op |-> "none", n |-> 0, index |-> -1, added |-> << >>, captured |-> << >> ]
  /\ markedAt = NotMarked

\* recordsManager.AddRecord(currentSettingsSnapshot) with the given score.
AddRecordCalled(score) ==
  /\ lastCall.n < MaxRecordCalls
  /\ recordsManager' = AddRecord(recordsManager, currentSettingsSnapshot(globals, score))
  /\ lastCall' = [ op |-> "AddRecord", n |-> lastCall.n + 1, index |-> -1,
                   added |-> Append(lastCall.added, score),
                   captured |-> Append(lastCall.captured, settingsOf(globals)) ]
  /\ UNCHANGED << sourcePos, listenerPos, numRays, initialRayOpacity, maxReflections,
                  volumeAttenuationFactor, explorationFactor, showOnlyListenerRays,
                  learningModeActive, currentLearningIteration, globalBestScore,
                  globalBestSettings, isSoundSourceTurn, listenerRayScore, rayVisuals,
                  occupancyCloud, debounceTimer, learningCycles, uiEvents, historyVars,
                  scoringVars, markedAt >>

\* applyRecordedSettings that leaves the bounce limit as it is.
applyRecordedSettingsKeepingBounces(g, index) ==
  IF index < 0 \/ index >= Len(g.recordsManager.BestRecords)
  THEN g
  ELSE LET settings == g.recordsManager.BestRecords[index + 1]
       IN  visualizeSoundPropagation(
             [ g EXCEPT !.numRays = settings.NumRays,
                        !.initialRayOpacity = settings.InitialRayOpacity,
                        !.volumeAttenuationFactor = settings.VolumeAttenuationFactor,
                        !.explorationFactor = settings.ExplorationFactor,
                        !.showOnlyListenerRays = settings.ShowOnlyListenerRays,
                        !.sourcePos = settings.SoundSourcePos,
                        !.listenerPos = settings.ListenerPos ])

\* The globals after goApplyRecordedSettingsByIndex(index): nothing on an
\* index outside the list, otherwise the record's settings and positions
\* and a new drawing.
applyRecordedSettings(g, index) ==
  IF index < 0 \/ index >= Len(g.recordsManager.BestRecords)
  THEN g
  ELSE LET settings == g.recordsManager.BestRecords[index + 1]
       IN  visualizeSoundPropagation(
             [ g EXCEPT !.numRays = settings.NumRays,
                        !.initialRayOpacity = settings.InitialRayOpacity,
                        !.maxReflections = settings.MaxReflections,
                        !.volumeAttenuationFactor = settings.VolumeAttenuationFactor,
                        !.explorationFactor = settings.ExplorationFactor,
                        !.showOnlyListenerRays = settings.ShowOnlyListenerRays,
                        !.sourcePos = settings.SoundSourcePos,
                        !.listenerPos = settings.ListenerPos ])

goApplyRecordedSettingsByIndex(index) ==
  /\ lastCall.n < MaxRecordCalls
  /\ \E after \in { applyRecordedSettings(globals, index) } : Commit(after)
  /\ lastCall' = [ lastCall EXCEPT !.op = "goApplyRecordedSettingsByIndex",
                                   !.n = lastCall.n + 1, !.index = index ]
  /\ UNCHANGED << debounceTimer, learningCycles, uiEvents, historyVars, scoringVars,
                  markedAt >>

RecordNext ==
  \/ \E score \in RecordScores : AddRecordCalled(score)
  \/ \E index \in RecordIndices : goApplyRecordedSettingsByIndex(index)
  \/ goUpdateSoundSourcePositionAndVisualize
  \/ goUpdateListenerPositionAndVisualize
  \/ goUpdateSliderValue
  \/ debounceTimerFires

RecordSpec == RecordInit /\ [][RecordNext]_vars

(***************************************************************************)
(* One run of runLearningCycle with maxLearningIterations = 1, from        *)
(* placements that the position callbacks have made, with the exploration  *)
(* factor 0 or 1.  lastCall keeps the placement and the score at the start *)
(* and, of the step, the outcome of the draw for a random jump, the        *)
(* positions the step could take and the one it took.                      *)
(***************************************************************************)
SingleIterationCap == 1
MoveSourcePositions ==
  { SourceStart, Vec(25, 25, 25), Vec(125, 25, 25), Vec(25, 75, 75), Vec(175, 75, 75) }
MoveListenerPositions ==
  { ListenerStart, Vec(75, 25, 25), Vec(325, 25, 25), Vec(225, 25, 75), Vec(125, 75, 75) }
MoveExplorationFactors == { 0, 1 }

\* The globals when the callbacks have placed the objects and set the
\* exploration factor, and the drawing has been made.
placed(s, l, ef) ==
  visualizeSoundPropagation(
    [ constructed EXCEPT !.sourcePos = s, !.listenerPos = l, !.explorationFactor = ef ])

MoveInit ==
  /\ \E s \in MoveSourcePositions : \E l \in MoveListenerPositions :
     \E ef \in MoveExplorationFactors :
     \E g \in { placed(s, l, ef) } :
       /\ s # l
       /\ globalsAre(startLearningMode(g))
       /\ lastCall = [ op |-> "goStartLearningMode", attemptedJump |-> FALSE,
                       originalPos |-> s, choices |-> {}, chosenPos |-> s,
                       candidates |-> << >>,
                       start |-> [ sourcePos |-> s, listenerPos |-> l,
                                   score |-> g.listenerRayScore ] ]
  /\ markedAt = NotMarked
  /\ debounceTimer = FALSE
  /\ learningCycles = << [ pc |-> "ready", movesAfterStop |-> -1 ] >>
  /\ uiEvents = 0
  /\ lastMover = "none"
  /\ movedSinceStart = {}
  /\ scoresSinceStart = {}
  /\ stoppedSinceStart = FALSE
  /\ stepsSinceStart = 0
  /\ rayOutcomes = << >>
  /\ rayScores = [ evaluation |-> 0, visual |-> 0 ]

\* The loop condition of runLearningCycle under the given cap.
continuesUnder(cycle, g, cap) ==
  /\ cycle.pc \in { "ready", "sleeping" }
  /\ g.learningModeActive
  /\ g.currentLearningIteration < cap

\* currentScore and the outcome of the loop over the candidates.
baselineOf(g) ==
  scoreOfMove(g, movingObjectOf(g), fixedObjectOf(g), movingObjectOf(g).Position)
bestOf(g) ==
  selectionLoop(g, movingObjectOf(g), fixedObjectOf(g),
                candidateLoop(g, movingObjectOf(g), fixedObjectOf(g), 1, << >>), 1,
                [ bestScore |-> baselineOf(g),
                  bestPositions |-> << movingObjectOf(g).Position >> ])

\* One pass of the loop in which the draw for a random jump, where the code
\* makes it, comes out as attemptsJump.
singleIterationStep(attemptsJump) ==
  \E cycle \in { learningCycles[1] } :
  \E g \in { resumed(cycle, globals) } :
  \E best \in { IF continuesUnder(cycle, g, SingleIterationCap)
                THEN bestOf(g) ELSE [ bestScore |-> 0, bestPositions |-> << >> ] } :
  \E choices \in { choiceOn(g, movingObjectOf(g), fixedObjectOf(g), baselineOf(g), best,
                            attemptsJump) } :
      /\ continuesUnder(cycle, g, SingleIterationCap)
      /\ IF best.bestScore > baselineOf(g) THEN ~attemptsJump
         ELSE IF attemptsJump THEN jumpCanBeAttempted(g) ELSE jumpCanBeOmitted(g)
      /\ \E chosenPos \in choices :
           /\ \E after \in { learningIteration(g, chosenPos) } :
                Commit(after) /\ Scored(g, after)
           /\ lastCall' = [ lastCall EXCEPT !.op = "findAndApplyBestMoveForLearning",
                                            !.attemptedJump = attemptsJump,
                                            !.originalPos = movingObjectOf(g).Position,
                                            !.choices = choices,
                                            !.candidates =
                                               candidateLoop(g, movingObjectOf(g),
                                                             fixedObjectOf(g), 1, << >>),
                                            !.chosenPos = chosenPos ]
      /\ learningCycles' = [ learningCycles EXCEPT ![1].pc = "sleeping" ]
      /\ lastMover' = movingObjectOf(g).Name
      /\ movedSinceStart' = movedSinceStart \cup { 1 }
      /\ stepsSinceStart' = stepsSinceStart + 1
      /\ UNCHANGED << debounceTimer, uiEvents, stoppedSinceStart, scoringVars, markedAt >>

\* The loop condition fails: the statements after the loop.
singleIterationFinish ==
  \E cycle \in { learningCycles[1] } :
  \E g \in { resumed(cycle, globals) } :
      /\ cycle.pc \in { "ready", "sleeping" }
      /\ ~continuesUnder(cycle, g, SingleIterationCap)
      /\ \E after \in { learningFinish(g) } : Commit(after)
      /\ learningCycles' = [ learningCycles EXCEPT ![1].pc = "finished" ]
      /\ lastCall' = [ lastCall EXCEPT !.op = "runLearningCycle" ]
      /\ UNCHANGED << debounceTimer, uiEvents, historyVars, scoringVars, markedAt >>

MoveNext ==
  \/ \E attemptsJump \in BOOLEAN : singleIterationStep(attemptsJump)
  \/ singleIterationFinish

MoveSpec == MoveInit /\ [][MoveNext]_vars

(***************************************************************************)
(* Runs started while soundSource or listener is nil.  The position of an  *)
(* object that is absent is Absent; goStartLearningMode and                *)
(* runLearningCycle are taken with their nil tests, which the other        *)
(* specifications, where both objects exist, leave out.                    *)
(***************************************************************************)
Absent == << >>
AbsentPositions == { ListenerStart, SourceStart, Vec(125, 25, 25) }

AbsentInit ==
  /\ \E s \in AbsentPositions \cup { Absent } : \E l \in AbsentPositions \cup { Absent } :
     \E ef \in MoveExplorationFactors :
       /\ s = Absent \/ l = Absent
       /\ globalsAre([ constructed EXCEPT !.sourcePos = s, !.listenerPos = l,
                                          !.explorationFactor = ef ])
  /\ noRunYet

\* UpdateObjectInCloud of each object that is not nil, at its own position.
confirmPresentInCloud(g) ==
  LET c1 == IF g.sourcePos # Absent
            THEN UpdateObjectInCloud(g.occupancyCloud, g.sourcePos, g.sourcePos,
                                     MovableScale, StateSoundSource)
            ELSE g.occupancyCloud
  IN  IF g.listenerPos # Absent
      THEN UpdateObjectInCloud(c1, g.listenerPos, g.listenerPos, MovableScale, StateListener)
      ELSE c1

startLearningModeWithAbsent(g) ==
  [ g EXCEPT !.learningModeActive = TRUE,
             !.currentLearningIteration = 0,
             !.globalBestScore = -1,
             !.globalBestSettings =
                [ Score |-> -1, Iteration |-> 0, NumRays |-> g.numRays,
                  InitialRayOpacity |-> g.initialRayOpacity,
                  MaxReflections |-> g.maxReflections,
                  VolumeAttenuationFactor |-> g.volumeAttenuationFactor,
                  ExplorationFactor |-> g.explorationFactor,
                  SoundSourcePos |-> IF g.sourcePos # Absent THEN g.sourcePos
                                     ELSE g.globalBestSettings.SoundSourcePos,
                  ListenerPos |-> IF g.listenerPos # Absent THEN g.listenerPos
                                  ELSE g.globalBestSettings.ListenerPos,
                  ShowOnlyListenerRays |-> g.showOnlyListenerRays ],
             !.isSoundSourceTurn = TRUE,
             !.occupancyCloud = confirmPresentInCloud(g) ]

goStartLearningModeWithAbsent ==
  /\ ~learningModeActive
  /\ Len(learningCycles) < MaxCycles
  /\ \E after \in { startLearningModeWithAbsent(globals) } : Commit(after)
  /\ learningCycles' = Append(learningCycles, [ pc |-> "ready", movesAfterStop |-> -1 ])
  /\ lastMover' = "none"
  /\ movedSinceStart' = {}
  /\ scoresSinceStart' = {}
  /\ stoppedSinceStart' = FALSE
  /\ stepsSinceStart' = 0
  /\ UNCHANGED << debounceTimer, uiEvents, scoringVars, lastCall, markedAt >>

\* runLearningCycle from its first statement to its return: with an object
\* nil the loop is left at its first pass, before any time.Sleep.
runLearningCycleWithAbsent(c) ==
  \E g \in { [ globals EXCEPT !.occupancyCloud = confirmPresentInCloud(globals) ] } :
  \E entered \in { g.currentLearningIteration < maxLearningIterations
                   /\ g.learningModeActive } :
      /\ learningCycles[c].pc = "ready"
      /\ Commit([ g EXCEPT !.currentLearningIteration = IF entered THEN @ + 1 ELSE @,
                           !.learningModeActive = FALSE ])
      /\ learningCycles' = [ learningCycles EXCEPT ![c].pc = "finished" ]
      /\ lastCall' = [ op |-> "runLearningCycle", entered |-> entered ]
      /\ UNCHANGED << debounceTimer, uiEvents, historyVars, scoringVars, markedAt >>

AbsentNext ==
  \/ goStartLearningModeWithAbsent
  \/ goStopLearningMode
  \/ \E c \in DOMAIN learningCycles : runLearningCycleWithAbsent(c)

AbsentSpec == AbsentInit /\ [][AbsentNext]_vars

(***************************************************************************)
(* The integer arithmetic on its own: the ray count of the reduced         *)
(* evaluation for every numRays of ranges around its two limits, and       *)
(* precomputeFibonacci on ints of a small width, where the sums overflow   *)
(* within the table.                                                       *)
(***************************************************************************)
\* numRays around zero, around the two limits of the quotient (550, 5000) and
\* far below zero.
NumRaysWindow == 120
NumRaysCentres == { -5000, 0, 550, 5000 }
NumRaysChoices == { c + d : c \in NumRaysCentres, d \in -NumRaysWindow..NumRaysWindow }

\* Widths of int small enough for the overflow to fall within TableSizes.
IntWidths == { 8, 12 }

evalNumRaysCalled(n) ==
  /\ lastCall' = [ op |-> "evalNumRays", numRays |-> n, result |-> evalNumRaysOf(n) ]
  /\ UNCHANGED << programVars, debounceTimer, learningCycles, uiEvents, historyVars,
                  scoringVars, markedAt >>

precomputeFibonacciOfWidthCalled(n, w) ==
  /\ lastCall' = [ op |-> "precomputeFibonacciOfWidth", n |-> n, w |-> w,
                   result |-> precomputeFibonacciOfWidth(n, w) ]
  /\ UNCHANGED << programVars, debounceTimer, learningCycles, uiEvents, historyVars,
                  scoringVars, markedAt >>

NumericNext ==
  \/ \E n \in NumRaysChoices : evalNumRaysCalled(n)
  \/ \E n \in TableSizes : \E w \in IntWidths : precomputeFibonacciOfWidthCalled(n, w)

NumericSpec == Init /\ [][NumericNext]_vars

(***************************************************************************)
(* The two learning-mode buttons with a record of each press: lastCall     *)
(* names the handler, says whether learningModeActive held when it was     *)
(* called, and alternates press between 0 and 1, so that a press that      *)
(* changes nothing else is still a step.                                   *)
(***************************************************************************)
pressOf(op) ==
  [ op |-> op, active |-> learningModeActive,
    press |-> IF lastCall.op = "none" THEN 0 ELSE 1 - lastCall.press ]

goStartLearningModePressed ==
  /\ lastCall' = pressOf("goStartLearningMode")
  /\ IF learningModeActive
     THEN UNCHANGED << programVars, debounceTimer, learningCycles, uiEvents, historyVars,
                       scoringVars, markedAt >>
     ELSE learningStarted

goStopLearningModePressed ==
  /\ lastCall' = pressOf("goStopLearningMode")
  /\ IF ~learningModeActive
     THEN UNCHANGED << programVars, debounceTimer, learningCycles, uiEvents, historyVars,
                       scoringVars, markedAt >>
     ELSE learningStopped

PressNext ==
  \/ goStartLearningModePressed
  \/ goStopLearningModePressed
  \/ \E c \in DOMAIN learningCycles : runLearningCycleStep(c)
  \/ \E c \in DOMAIN learningCycles : runLearningCycleFinish(c)

PressSpec == Init /\ [][PressNext]_vars

(***************************************************************************)
(* The two tracers on their own: one ray from the source, for placements   *)
(* and parameters that the position callbacks and the sliders can produce, *)
(* with either caller's list of collidables.  lastCall records what the    *)
(* two tracers return and the segments castRayAndAddVisuals draws.         *)
(***************************************************************************)
\* Bounce limits, and (initialRayOpacity, volumeAttenuationFactor) in
\* twentieths: the values of main, and a faint ray that falls below the
\* threshold of 0.01 at its first bounce.
TraceBounceLimits == { -1, 0, 1, 3 }
TraceOpacities == { << 12, 17 >>, << 1, 2 >> }
TraceCollidables == { "evaluation", "visualization" }

TraceInit ==
  /\ \E s \in ProbePositions : \E l \in ProbePositions :
     \E limit \in TraceBounceLimits : \E onlyListenerRays \in BOOLEAN :
     \E opacity \in TraceOpacities :
       globalsAre(visualizeSoundPropagation(
                    [ constructed EXCEPT !.sourcePos = s, !.listenerPos = l,
                                         !.maxReflections = limit,
                                         !.showOnlyListenerRays = onlyListenerRays,
                                         !.initialRayOpacity = opacity[1],
                                         !.volumeAttenuationFactor = opacity[2] ]))
  /\ noRunYet

collidablesNamed(g, list) ==
  IF list = "evaluation" THEN evaluationCollidables(g, g.sourcePos)
  ELSE visualizationCollidables(g)

castRayCalled(direction, list) ==
  /\ \E traced \in { castRayAndAddVisuals(globals, << >>, sourcePos, direction, 0,
                                          collidablesNamed(globals, list), listenerPos,
                                          listener(globals).Scale[1]) } :
       lastCall' = [ op |-> "castRay", direction |-> direction, list |-> list,
                     bounceCount |->
                       castRayAndGetBounceCountForEvaluation(
                         globals, sourcePos, direction, 0, collidablesNamed(globals, list),
                         listenerPos, listener(globals).Scale[1]),
                     hitData |-> [ hitListener |-> traced.hitListener,
                                   bounces |-> traced.bounces ],
                     rayVisuals |-> traced.rayVisuals ]
  /\ UNCHANGED << programVars, debounceTimer, learningCycles, uiEvents, historyVars,
                  scoringVars, markedAt >>

TraceNext ==
  \E direction \in Range(AxisDirections) : \E list \in TraceCollidables :
    castRayCalled(direction, list)

TraceSpec == TraceInit /\ [][TraceNext]_vars

(***************************************************************************)
(* Runs while occupancyCloud is nil.  goStartLearningMode and              *)
(* runLearningCycle are taken with their tests of occupancyCloud != nil,   *)
(* which the other specifications, where the cloud exists, leave out.  An  *)
(* optimizer step reads occupancyCloud.RoomMin for its first neighbour     *)
(* position (optimization.go:67) before it tests occupancyCloud != nil     *)
(* (l.83): the read of a field through a nil pointer raises a panic,       *)
(* which unwinds to the deferred recoverFromPanic of runLearningCycle.     *)
(***************************************************************************)
NilCloud == << >>

NilCloudInit ==
  /\ \E s \in MoveSourcePositions : \E l \in MoveListenerPositions :
       /\ s # l
       /\ globalsAre([ placed(s, l, 1) EXCEPT !.occupancyCloud = NilCloud ])
  /\ noRunYet

\* goStartLearningMode past its test of learningModeActive; the cloud is
\* updated only if there is one.
startLearningModeWithNilCloud(g) ==
  LET started == [ g EXCEPT !.learningModeActive = TRUE,
                            !.currentLearningIteration = 0,
                            !.globalBestScore = -1,
                            !.globalBestSettings =
                               [ currentSettingsSnapshot(g, -1) EXCEPT !.Iteration = 0 ],
                            !.isSoundSourceTurn = TRUE ]
  IN  IF g.occupancyCloud # NilCloud THEN confirmObjectsInCloud(started) ELSE started

goStartLearningModeWithNilCloud ==
  /\ ~learningModeActive
  /\ Len(learningCycles) < MaxCycles
  /\ \E after \in { startLearningModeWithNilCloud(globals) } : Commit(after)
  /\ learningCycles' = Append(learningCycles, [ pc |-> "ready", movesAfterStop |-> -1 ])
  /\ lastMover' = "none"
  /\ movedSinceStart' = {}
  /\ scoresSinceStart' = {}
  /\ stoppedSinceStart' = FALSE
  /\ stepsSinceStart' = 0
  /\ UNCHANGED << debounceTimer, uiEvents, scoringVars, lastCall, markedAt >>

\* Whether the neighbour loop of a step dereferences a nil occupancyCloud: it
\* does so for the first offset that is not the zero offset.
neighbourLoopDereferencesNil(g) ==
  /\ g.occupancyCloud = NilCloud
  /\ \E k \in DOMAIN neighbourOffsets : neighbourOffsets[k] # ZeroVec

\* A pass of the loop of runLearningCycle with the cloud nil: the iteration
\* is counted, the baseline score is computed, the panic is raised in the
\* neighbour loop and recovered at the return of runLearningCycle.
runLearningCycleFaultsOnNilCloud(c) ==
  \E cycle \in { learningCycles[c] } :
  \E g \in { globals } :
      /\ continues(cycle, g)
      /\ neighbourLoopDereferencesNil(g)
      /\ Commit(recoverFromPanic([ g EXCEPT !.currentLearningIteration = @ + 1 ],
                                 "runLearningCycle"))
      /\ learningCycles' = [ learningCycles EXCEPT ![c].pc = "finished" ]
      /\ lastCall' = [ op |-> "panic", at |-> "occupancyCloud.RoomMin",
                       baseline |-> scoreOfMove(g, movingObjectOf(g), fixedObjectOf(g),
                                                movingObjectOf(g).Position) ]
      /\ UNCHANGED << debounceTimer, uiEvents, historyVars, scoringVars, markedAt >>

\* The statements after the loop with the cloud nil: the best snapshot, if
\* there is one, is applied without any update of the cloud.
learningFinishWithNilCloud(g) ==
  LET g1 == [ g EXCEPT !.learningModeActive = FALSE ]
      best == g1.globalBestSettings
  IN  IF best.Score > -1
      THEN visualizeSoundPropagation(
             [ g1 EXCEPT !.sourcePos = best.SoundSourcePos,
                         !.listenerPos = best.ListenerPos,
                         !.numRays = best.NumRays,
                         !.initialRayOpacity = best.InitialRayOpacity,
                         !.maxReflections = best.MaxReflections,
                         !.volumeAttenuationFactor = best.VolumeAttenuationFactor,
                         !.explorationFactor = best.ExplorationFactor,
                         !.showOnlyListenerRays = best.ShowOnlyListenerRays ])
      ELSE g1

\* The loop condition fails, the run having been stopped before its step.
runLearningCycleEndsOnNilCloud(c) ==
  \E cycle \in { learningCycles[c] } :
  \E g \in { globals } :
      /\ cycle.pc \in { "ready", "sleeping" }
      /\ ~continues(cycle, g)
      /\ Commit(learningFinishWithNilCloud(g))
      /\ learningCycles' = [ learningCycles EXCEPT ![c].pc = "finished" ]
      /\ UNCHANGED << debounceTimer, uiEvents, historyVars, scoringVars, lastCall, markedAt >>

NilCloudNext ==
  \/ goStartLearningModeWithNilCloud
  \/ goStopLearningMode
  \/ \E c \in DOMAIN learningCycles : runLearningCycleFaultsOnNilCloud(c)
  \/ \E c \in DOMAIN learningCycles : runLearningCycleEndsOnNilCloud(c)

NilCloudSpec == NilCloudInit /\ [][NilCloudNext]_vars

(***************************************************************************)
(* Properties                                                              *)
(***************************************************************************)
\* A step of a learning cycle has been taken.
StepTaken == stepsSinceStart' = stepsSinceStart + 1

\* A learning cycle has run the statements after its loop.
FinishTaken ==
  \E c \in DOMAIN learningCycles :
    learningCycles[c].pc # "finished" /\ learningCycles'[c].pc = "finished"

\* C1: after any optimizer step the position committed for the moving object
\* is one for which IsPositionAttemptValid, with the same extent, role and
\* other object's current position, returns true.
C1_CommittedPositionIsValid ==
  [][ StepTaken =>
        IF lastMover' = "SoundSource"
        THEN IsPositionAttemptValid(occupancyCloud', sourcePos', MovableScale,
                                    StateSoundSource, listenerPos', MovableScale)
        ELSE IsPositionAttemptValid(occupancyCloud', listenerPos', MovableScale,
                                    StateListener, sourcePos', MovableScale) ]_vars

\* C2: once goStopLearningMode has cleared learningModeActive, a cycle that
\* had not finished commits at most one further move.
C2_AtMostOneMoveAfterStop ==
  \A c \in DOMAIN learningCycles : learningCycles[c].movesAfterStop <= 1

\* C3: at most one runLearningCycle loop moves objects and updates the
\* occupancy grid after a start.
C3_SingleActiveLoop == Cardinality(movedSinceStart) <= 1

\* The cells whose centre lies within the object's sphere are not Empty.
ObjectShownInCloud(oc, pos, scale) ==
  \A c \in DOMAIN oc.Grid :
    LengthLess(Sub(cellCenter(oc, c), pos), maxScale(scale) \div 2)
    => oc.Grid[c] # StateEmpty

SettingsApplied(best, src, lis, n, opacity, bounces, attenuation, exploration, only) ==
  /\ src = best.SoundSourcePos
  /\ lis = best.ListenerPos
  /\ n = best.NumRays
  /\ opacity = best.InitialRayOpacity
  /\ bounces = best.MaxReflections
  /\ attenuation = best.VolumeAttenuationFactor
  /\ exploration = best.ExplorationFactor
  /\ only = best.ShowOnlyListenerRays

\* C4 (first half): when a run ends after a best snapshot was recorded, the
\* positions and the parameters equal those of globalBestSettings.
C4_BestSettingsApplied ==
  [][ FinishTaken /\ globalBestSettings'.Score > -1 =>
        SettingsApplied(globalBestSettings', sourcePos', listenerPos', numRays',
                        initialRayOpacity', maxReflections', volumeAttenuationFactor',
                        explorationFactor', showOnlyListenerRays') ]_vars

\* C4: when a run ends after a best snapshot was recorded, the positions and
\* the parameters equal those of globalBestSettings and the occupancy grid
\* has been updated for both objects to those positions.
C4_BestSettingsAndCloudApplied ==
  [][ FinishTaken /\ globalBestSettings'.Score > -1 =>
        /\ SettingsApplied(globalBestSettings', sourcePos', listenerPos', numRays',
                           initialRayOpacity', maxReflections', volumeAttenuationFactor',
                           explorationFactor', showOnlyListenerRays')
        /\ ObjectShownInCloud(occupancyCloud', globalBestSettings'.SoundSourcePos,
                              MovableScale)
        /\ ObjectShownInCloud(occupancyCloud', globalBestSettings'.ListenerPos,
                              MovableScale) ]_vars

SetMax(S) == CHOOSE x \in S : \A y \in S : y <= x

\* The globals with the positions and parameters of a snapshot in force.
SnapshotInForce(g, best) ==
  [ g EXCEPT !.sourcePos = best.SoundSourcePos,
             !.listenerPos = best.ListenerPos,
             !.numRays = best.NumRays,
             !.initialRayOpacity = best.InitialRayOpacity,
             !.maxReflections = best.MaxReflections,
             !.volumeAttenuationFactor = best.VolumeAttenuationFactor,
             !.explorationFactor = best.ExplorationFactor,
             !.showOnlyListenerRays = best.ShowOnlyListenerRays ]

\* C5: during a run globalBestScore never decreases and equals the maximum
\* score that visualizeSoundPropagation computed since the run started; once a
\* best has been recorded globalBestSettings.Score equals globalBestScore and
\* the full evaluation at the positions and parameters of globalBestSettings
\* gives that score.
C5_BestScoreIsRunMaximum ==
  /\ [](learningModeActive /\ scoresSinceStart # {}
          => globalBestScore = SetMax(scoresSinceStart))
  /\ [](scoresSinceStart # {}
          => /\ globalBestSettings.Score = globalBestScore
             /\ fullEvaluation(SnapshotInForce(globals, globalBestSettings)).score
                  = globalBestSettings.Score)
  /\ [][ learningModeActive /\ learningModeActive'
           => globalBestScore' >= globalBestScore ]_vars

\* A second, higher score of a run has replaced the first best.
C5_Witness ==
  /\ learningModeActive
  /\ Cardinality(scoresSinceStart) >= 2
  /\ globalBestScore = SetMax(scoresSinceStart)
  /\ globalBestSettings.SoundSourcePos = sourcePos

\* C6: the first step of a run moves the source, every later step moves the
\* object the previous step did not move; a step leaves the position of the
\* other object as it was and flips the turn.
C6_TurnsAlternate ==
  [][ StepTaken =>
        /\ lastMover' = IF lastMover = "SoundSource" THEN "Listener" ELSE "SoundSource"
        /\ IF lastMover' = "SoundSource"
           THEN listenerPos' = listenerPos
           ELSE sourcePos' = sourcePos
        /\ isSoundSourceTurn' = ~isSoundSourceTurn
        /\ isSoundSourceTurn' = (lastMover' = "Listener") ]_vars

\* The listener has moved in the second step of a run.
C6_Witness ==
  /\ lastMover = "Listener"
  /\ stepsSinceStart = 2
  /\ listenerPos # ListenerStart
  /\ isSoundSourceTurn

\* C7: every run ends with learningModeActive false, currentLearningIteration
\* never exceeds maxLearningIterations, and a run that was not stopped has
\* performed maxLearningIterations steps when it ends.
C7_RunsEnd ==
  /\ [](currentLearningIteration <= maxLearningIterations)
  /\ (learningModeActive ~> ~learningModeActive)
  /\ [][ FinishTaken /\ ~stoppedSinceStart
           => stepsSinceStart = maxLearningIterations ]_vars

\* A run that nothing stopped has ended at the iteration cap.
C7_Witness ==
  /\ ~learningModeActive
  /\ ~stoppedSinceStart
  /\ stepsSinceStart = maxLearningIterations
  /\ currentLearningIteration = maxLearningIterations
  /\ \E c \in DOMAIN learningCycles : learningCycles[c].pc = "finished"

\* << F(n), F(n + 1) >> of the Fibonacci numbers F(0) = 0, F(1) = 1.
RECURSIVE FibonacciPair(_)
FibonacciPair(n) ==
  IF n = 0 THEN << 0, 1 >>
  ELSE LET p == FibonacciPair(n - 1) IN << p[2], p[1] + p[2] >>

RayScoreOf(b) ==
  IF b = 0 THEN BASE_DIRECT_HIT_SCORE
  ELSE IF b > 0 THEN FibonacciPair(Min(b, FIBONACCI_SCORE_CAP_INDEX))[1]
  ELSE 0

RECURSIVE TotalScoreOf(_)
TotalScoreOf(outcomes) ==
  IF outcomes = << >> THEN 0
  ELSE RayScoreOf(Head(outcomes)) + TotalScoreOf(Tail(outcomes))

\* C8: the total score of an evaluation is the sum over its rays of
\* BASE_DIRECT_HIT_SCORE for a hit with 0 bounces, of
\* fibonacciSequence[min(b, FIBONACCI_SCORE_CAP_INDEX)] for a hit after b > 0
\* bounces and of 0 for a miss, in calculateListenerScore and in
\* visualizeSoundPropagation alike.
C8_TotalIsSumOfRayScores ==
  /\ rayScores.evaluation = TotalScoreOf(rayOutcomes)
  /\ rayScores.visual = TotalScoreOf(rayOutcomes)

\* A direct hit, a hit beyond the cap index and a miss have been scored.
C8_Witness ==
  /\ Len(rayOutcomes) = MaxScoredRays
  /\ \E i \in DOMAIN rayOutcomes : rayOutcomes[i] > FIBONACCI_SCORE_CAP_INDEX
  /\ \E i \in DOMAIN rayOutcomes : rayOutcomes[i] = 0
  /\ \E i \in DOMAIN rayOutcomes : rayOutcomes[i] = -1
  /\ rayScores.evaluation = BASE_DIRECT_HIT_SCORE + 6765

\* The box of a static object meets the straight segment from a to b.
BoxMeetsSegment(obj, a, b) ==
  \A i \in 1..3 :
    /\ obj.Position[i] - obj.Scale[i] \div 2 <= Max(a[i], b[i])
    /\ obj.Position[i] + obj.Scale[i] \div 2 >= Min(a[i], b[i])

\* No static object lies between the source and the listener, and one of the
\* rays of the full evaluation leaves the source straight at the listener.
ClearLineOfSight(g) ==
  /\ g.sourcePos # g.listenerPos
  /\ \A k \in DOMAIN staticSceneObjects :
       ~BoxMeetsSegment(staticSceneObjects[k], g.sourcePos, g.listenerPos)
  /\ \E i \in 0..(g.numRays - 1) : \E d \in 1..MAX_RAY_DISTANCE :
       Add(g.sourcePos, Scale(rayDirection(i, g.numRays), d)) = g.listenerPos

\* C9: with a clear line of sight the full evaluation counts the ray cast
\* straight at the listener as a direct hit, so that the total score is at
\* least BASE_DIRECT_HIT_SCORE.
C9_ClearSightScores ==
  ClearLineOfSight(globals) => fullEvaluation(globals).score >= BASE_DIRECT_HIT_SCORE

\* The sphere of the given radius about the listener lies within the box of
\* a static object.
ListenerEnclosed(g, radius) ==
  \E k \in DOMAIN staticSceneObjects :
    \A i \in 1..3 :
      /\ staticSceneObjects[k].Position[i] - staticSceneObjects[k].Scale[i] \div 2
           <= g.listenerPos[i] - radius
      /\ staticSceneObjects[k].Position[i] + staticSceneObjects[k].Scale[i] \div 2
           >= g.listenerPos[i] + radius

\* The positions of the source on the lattice of the optimizer's steps.
SourcePositions ==
  { Vec(SourceStart[1] + k * OPTIMIZATION_STEP_SIZE, SourceStart[2], SourceStart[3]) :
      k \in -2..2 }

\* C10: if the listener sphere, with the radius the tracers use for it, lies
\* wholly inside a static obstacle, the full and the reduced evaluation give
\* the total score 0 for every source position.
C10_EnclosedListenerScoresZero ==
  ListenerEnclosed(globals, listener(globals).Scale[1])
  => \A p \in SourcePositions :
       /\ fullEvaluation([ globals EXCEPT !.sourcePos = p ]).score = 0
       /\ calculateListenerScore([ globals EXCEPT !.sourcePos = p ], p, listenerPos) = 0

\* The globals once the moving object stands at p.
MovedTo(g, movingObject, p) ==
  IF movingObject.Name = "SoundSource" THEN [ g EXCEPT !.sourcePos = p ]
  ELSE [ g EXCEPT !.listenerPos = p ]

\* The candidate positions of the next optimizer step.
CandidatesOf(g) == Range(candidateLoop(g, movingObjectOf(g), fixedObjectOf(g), 1, << >>))

\* C11: the reduced score of a (sourcePos, listenerPos) pair does not depend
\* on where the source and the listener stand when it is computed: the score
\* computed for a candidate position of the moving object equals the score
\* computed for that position once the object has been moved there.
C11_ScoreIndependentOfPlacement ==
  \A p \in CandidatesOf(globals) :
    scoreOfMove(globals, movingObjectOf(globals), fixedObjectOf(globals), p)
      = scoreOfMove(MovedTo(globals, movingObjectOf(globals), p),
                    [ movingObjectOf(globals) EXCEPT !.Position = p ],
                    fixedObjectOf(globals), p)

\* calculateListenerScore has been called.
EvaluationTaken == lastCall' # lastCall /\ lastCall'.op = "calculateListenerScore"

Inside(obj, p) ==
  IF obj.ShapeType = "sphere"
  THEN LengthSquared(Sub(p, obj.Position)) <= obj.Scale[1] * obj.Scale[1]
  ELSE \A i \in 1..3 : /\ obj.Position[i] - obj.Scale[i] \div 2 <= p[i]
                       /\ p[i] <= obj.Position[i] + obj.Scale[i] \div 2

\* No object reaches further than this from a point of the room.
SceneReach == SceneRoomMax[1] + 2 * OPTIMIZATION_STEP_SIZE

\* The distances d with 0 < d < maxDist at which the ray enters the object.
EntryDistances(origin, direction, maxDist, obj) ==
  { d \in 1..Min(maxDist - 1, SceneReach) :
      /\ Inside(obj, Add(origin, Scale(direction, d)))
      /\ ~Inside(obj, Add(origin, Scale(direction, d - 1))) }

\* << d, k >> for every visible object k of the call, other than the ignored
\* one, that the ray enters at distance d.
HitsOf(c) ==
  UNION { { << d, k >> : d \in EntryDistances(c.origin, c.direction, c.maxDist, c.objects[k]) } :
            k \in { j \in DOMAIN c.objects :
                      c.objects[j].Visible /\ c.objects[j].Name # c.ignoreObject } }

\* The result is the hit of least distance and, among those, of the least
\* place in the list; without a hit it is Hit = false at maxDist.
IsClosestOf(result, hits, c) ==
  IF hits = {}
  THEN ~result.Hit /\ result.Distance = c.maxDist
  ELSE \E h \in hits :
         /\ \A o \in hits : h[1] < o[1] \/ (h[1] = o[1] /\ h[2] <= o[2])
         /\ result.Hit
         /\ result.Distance = h[1]
         /\ result.Object = c.objects[h[2]].Name

\* C19: performRaycast returns Hit = false with Distance = maxDist exactly
\* when no visible object other than the ignored one is hit at a distance d
\* with 0 < d < maxDist; otherwise it returns the object hit at the least such
\* distance, and of two objects at that distance the one that comes first in
\* the objects list.
C19_ClosestHitFirstInList ==
  lastCall.op = "performRaycast" => IsClosestOf(lastCall.result, HitsOf(lastCall), lastCall)

\* Two objects are hit at the same least distance, and the first of them in
\* the list has been returned.
C19_Witness ==
  /\ lastCall.op = "performRaycast"
  /\ lastCall.result.Hit
  /\ \E h \in HitsOf(lastCall) : \E o \in HitsOf(lastCall) :
       /\ h[1] = lastCall.result.Distance
       /\ o[1] = h[1]
       /\ h[2] < o[2]
       /\ lastCall.result.Object = lastCall.objects[h[2]].Name

\* The radius of a movable object in the cloud's functions.
MovableRadius == maxScale(MovableScale) \div 2

\* The two movable spheres, centred at p and q, overlap.
SpheresOverlap(p, q) ==
  LengthSquared(Sub(p, q)) < (2 * MovableRadius) * (2 * MovableRadius)

\* C13: IsPositionAttemptValid returns false for every candidate position at
\* which the moving object's sphere overlaps the other dynamic object's sphere
\* at its current position, whatever the cell size and wherever in the room
\* the candidate lies.
C13_OverlapIsRejected ==
  lastCall.op = "IsPositionAttemptValid"
    /\ SpheresOverlap(lastCall.proposedPos, lastCall.otherObjCurrentPos)
  => ~lastCall.result

\* The cell indices of the cloud and of one layer of cells around it.
CellsAround(oc) == ((-1)..oc.CellsX) \X ((-1)..oc.CellsY) \X ((-1)..oc.CellsZ)

\* Some cell whose centre lies within the moving object's radius of p is a
\* static obstacle or lies outside the grid.
BlockedAt(oc, p) ==
  \E c \in CellsAround(oc) :
    /\ LengthLess(Sub(cellCenter(oc, c), p), MovableRadius)
    /\ (c \notin DOMAIN oc.Grid \/ oc.Grid[c] = StateStaticObstacle)

\* C14: IsPositionAttemptValid returns false whenever some cell whose centre
\* lies within the moving object's radius of the candidate position is
\* StaticObstacle or lies outside the grid, also when the object's bounding
\* box around the candidate reaches beyond the grid bounds.
C14_BlockedCellIsRejected ==
  lastCall.op = "IsPositionAttemptValid" /\ BlockedAt(occupancyCloud, lastCall.proposedPos)
  => ~lastCall.result

\* UpdateObjectInCloud has been called.
UpdateTaken == lastCall' # lastCall /\ lastCall'.op = "UpdateObjectInCloud"

\* C15: an UpdateObjectInCloud call, of either role and for any old and new
\* position, leaves every StaticObstacle cell StaticObstacle and turns no
\* other cell into StaticObstacle; an update of the source changes no Listener
\* cell and an update of the listener no SoundSource cell.
C15_UpdateKeepsOtherCells ==
  [][ UpdateTaken =>
        \A c \in DOMAIN occupancyCloud.Grid :
          /\ (occupancyCloud.Grid[c] = StateStaticObstacle)
               = (occupancyCloud'.Grid[c] = StateStaticObstacle)
          /\ occupancyCloud.Grid[c] \in CloudRoles \ { lastCall'.newState }
               => occupancyCloud'.Grid[c] = occupancyCloud.Grid[c] ]_vars

\* The source has been marked next to a static cell and a cell of the
\* listener, both within its marking radius, and has taken neither.
C15_Witness ==
  /\ lastCall.op = "UpdateObjectInCloud"
  /\ lastCall.newState = StateSoundSource
  /\ \E c \in DOMAIN occupancyCloud.Grid : \E d \in DOMAIN occupancyCloud.Grid :
     \E e \in DOMAIN occupancyCloud.Grid :
       /\ occupancyCloud.Grid[c] = StateStaticObstacle
       /\ occupancyCloud.Grid[d] = StateListener
       /\ occupancyCloud.Grid[e] = StateSoundSource
       /\ \A x \in { c, d, e } :
            LengthLess(Sub(cellCenter(occupancyCloud, x), lastCall.newPosition),
                       MovableRadius + occupancyCloud.CellSize[1])

\* Every cell that holds the role lies within the marking radius of p.
RoleCellsWithin(oc, role, p) ==
  \A c \in DOMAIN oc.Grid :
    oc.Grid[c] = role
    => LengthLess(Sub(cellCenter(oc, c), p), MovableRadius + oc.CellSize[1])

\* C17: for an object whose cells were marked at posA, UpdateObjectInCloud
\* from posA to posB followed by UpdateObjectInCloud from posB to posA returns
\* every cell of the grid to the state it had before the first call.  Marked
\* at posA: the role's last update had posA as its new position and no cell
\* of the role lies elsewhere.
C17_UpdateRoundTrip ==
  [][ ( /\ UpdateTaken
        /\ markedAt[roleName(lastCall'.newState)] = lastCall'.oldPosition
        /\ RoleCellsWithin(occupancyCloud, lastCall'.newState, lastCall'.oldPosition) )
      => UpdateObjectInCloud(occupancyCloud', lastCall'.newPosition,
                               lastCall'.oldPosition, MovableScale,
                               lastCall'.newState).Grid = occupancyCloud.Grid ]_vars

\* The grid indices that the bounding box of the object covers.
CoveredCells(oc, obj) ==
  { c \in DOMAIN oc.Grid :
      \A i \in 1..3 :
        /\ (obj.Position[i] - obj.Scale[i] \div 2 - oc.RoomMin[i]) \div oc.CellSize[i] <= c[i]
        /\ c[i] <= (obj.Position[i] + obj.Scale[i] \div 2 - oc.RoomMin[i]) \div oc.CellSize[i] }

\* C18: after MarkStaticObstacles a cell is StaticObstacle exactly when it
\* lies in the grid-index range covered by the bounding box of some static
\* object; of an object partly outside the grid the in-bounds part is marked
\* and nothing else.
C18_StaticCellsAreCoveredCells ==
  lastCall.op = "MarkStaticObstacles" =>
    \A c \in DOMAIN occupancyCloud.Grid :
      (occupancyCloud.Grid[c] = StateStaticObstacle)
        = (\E k \in DOMAIN lastCall.staticObjects :
             /\ lastCall.staticObjects[k].IsStatic
             /\ c \in CoveredCells(occupancyCloud, lastCall.staticObjects[k]))

\* C16: in every reachable state each cell tagged SoundSource lies within the
\* marking radius of the source's current position and each cell tagged
\* Listener within the marking radius of the listener's current position: no
\* cell is left behind by an optimizer step, a manual position update or the
\* re-application of the best placement at the end of a run.
C16_NoStaleCells ==
  /\ RoleCellsWithin(occupancyCloud, StateSoundSource, sourcePos)
  /\ RoleCellsWithin(occupancyCloud, StateListener, listenerPos)

\* A step in which a panic was raised.
FaultTaken == lastCall' # lastCall /\ lastCall'.op = "panic"

\* The cells of the role are the cells that marking the object at pos gives:
\* none lies outside the marking radius and confirming the object at pos
\* changes no cell.
CellsAgree(oc, role, pos) ==
  /\ RoleCellsWithin(oc, role, pos)
  /\ UpdateObjectInCloud(oc, pos, pos, MovableScale, role).Grid = oc.Grid

\* The object whose turn it is: if its cells agreed with its position before
\* the step, they agree after it.
MoverStillAgrees ==
  IF isSoundSourceTurn
  THEN CellsAgree(occupancyCloud, StateSoundSource, sourcePos)
       => CellsAgree(occupancyCloud', StateSoundSource, sourcePos')
  ELSE CellsAgree(occupancyCloud, StateListener, listenerPos)
       => CellsAgree(occupancyCloud', StateListener, listenerPos')

\* C20: a panic raised anywhere in an optimizer step of an active run turns
\* the run off (learningModeActive is false after the step) and leaves the
\* shared state whole: globalBestScore still equals globalBestSettings.Score
\* and the cells of the object that was to move still agree with its position.
C20_PanicTurnsRunOff ==
  [][ FaultTaken
      => /\ ~learningModeActive'
         /\ (globalBestScore = globalBestSettings.Score
               => globalBestScore' = globalBestSettings'.Score)
         /\ MoverStillAgrees ]_vars

\* C25: the table of precomputeFibonacci(n), for every n from 1 to the cap
\* index, has 0 at index 0 and 1 at index 1, every later entry is the sum of
\* the two entries before it, and no entry is below the entry before it.
\* Index i of the program's table is entry i + 1 of result.
C25_FibonacciTable ==
  lastCall.op = "precomputeFibonacci" /\ lastCall.n >= 1
  => /\ Len(lastCall.result) = lastCall.n + 1
     /\ lastCall.result[1] = 0
     /\ lastCall.result[2] = 1
     /\ \A i \in 2..lastCall.n :
          lastCall.result[i + 1] = lastCall.result[i] + lastCall.result[i - 1]
     /\ \A i \in 1..lastCall.n : lastCall.result[i] <= lastCall.result[i + 1]

\* The table up to the cap index has been built; its last entry is F(20).
C25_Witness ==
  /\ lastCall.op = "precomputeFibonacci"
  /\ lastCall.n = FIBONACCI_SCORE_CAP_INDEX
  /\ lastCall.result[FIBONACCI_SCORE_CAP_INDEX + 1] = 6765

\* C22: a call of NewOccupancyCloud with a cell size <= 0 on some axis, or
\* with roomMax - roomMin <= 0 on some axis, does not return a cloud.
C22_BadDimensionsAreFatal ==
  ( lastCall.op = "NewOccupancyCloud"
    /\ (\E i \in 1..3 : ( lastCall.cellSize[i] <= 0
                          \/ lastCall.roomMax[i] - lastCall.roomMin[i] <= 0 )) )
  => lastCall.end # "returned"

\* C28: for a direction v of length 1 and a normal of length 1, v.Reflect(n)
\* has length 1, its dot product with n is minus that of v, and reflecting
\* it again about n gives v.  Lengths and dot products are in thirds.
C28_ReflectionIsInvolution ==
  lastCall.op = "Reflect"
  => /\ LengthSquared(lastCall.result) = ThirdsPerUnit * ThirdsPerUnit
     /\ Dot(lastCall.result, lastCall.normal) = -Dot(lastCall.v, lastCall.normal)
     /\ Reflect(lastCall.result, lastCall.normal) = lastCall.v

\* A direction oblique to the normal has been reflected into another one.
C28_Witness ==
  /\ lastCall.op = "Reflect"
  /\ Dot(lastCall.v, lastCall.normal) \notin { 0, ThirdsPerUnit, -ThirdsPerUnit }
  /\ lastCall.result # lastCall.v

\* How many of the scores in the sequence s are equal to x, and how many
\* are higher.
TimesIn(s, x) == Cardinality({ k \in DOMAIN s : s[k] = x })
HigherIn(s, x) == Cardinality({ k \in DOMAIN s : s[k] > x })
KeptScores == [ k \in DOMAIN recordsManager.BestRecords |-> recordsManager.BestRecords[k].Score ]

\* C26: after any sequence of AddRecord calls the list is ordered by
\* non-increasing score, holds at most MaxRecords entries, and its scores are
\* the MaxRecords highest of all the scores added: a score is kept as often
\* as it was added, as far as the places left by the higher scores allow.
C26_RecordsSortedAndTop ==
  /\ \A k \in 1..(Len(KeptScores) - 1) : KeptScores[k] >= KeptScores[k + 1]
  /\ Len(KeptScores) <= recordsManager.MaxRecords
  /\ \A x \in RecordScores :
       TimesIn(KeptScores, x) =
         Min(TimesIn(lastCall.added, x),
             Max(0, recordsManager.MaxRecords - HigherIn(lastCall.added, x)))

\* More records added than the list holds, the lowest added first.
C26_Witness ==
  /\ Len(lastCall.added) > recordsManager.MaxRecords
  /\ lastCall.added[1] < lastCall.added[2]
  /\ lastCall.added[2] < lastCall.added[3]
  /\ KeptScores = << lastCall.added[3], lastCall.added[2] >>

\* C27: goApplyRecordedSettingsByIndex with an index of the list sets the ray
\* count, the initial opacity, the bounce limit, the attenuation factor, the
\* exploration factor, the listener-only flag and both positions to those of
\* the record, which are those that were current when a record of that score
\* was added; with an index outside the list it changes none of them.
C27_ApplyRestoresSnapshot ==
  [][ (lastCall'.op = "goApplyRecordedSettingsByIndex" /\ lastCall'.n # lastCall.n)
      => IF lastCall'.index \in 0..(Len(recordsManager.BestRecords) - 1)
         THEN LET settings == recordsManager.BestRecords[lastCall'.index + 1]
              IN  /\ numRays' = settings.NumRays
                  /\ initialRayOpacity' = settings.InitialRayOpacity
                  /\ maxReflections' = settings.MaxReflections
                  /\ volumeAttenuationFactor' = settings.VolumeAttenuationFactor
                  /\ explorationFactor' = settings.ExplorationFactor
                  /\ showOnlyListenerRays' = settings.ShowOnlyListenerRays
                  /\ sourcePos' = settings.SoundSourcePos
                  /\ listenerPos' = settings.ListenerPos
                  /\ \E k \in DOMAIN lastCall.added :
                       /\ lastCall.added[k] = settings.Score
                       /\ settingsOf(globals)' = lastCall.captured[k]
         ELSE settingsOf(globals)' = settingsOf(globals) ]_vars

\* The best record has been applied after a callback had changed a setting
\* or a position and a second, lower record had been taken of the change.
C27_Witness ==
  /\ lastCall.op = "goApplyRecordedSettingsByIndex"
  /\ lastCall.index = 0
  /\ Len(lastCall.added) = 2
  /\ lastCall.added[1] > lastCall.added[2]
  /\ lastCall.captured[1] # lastCall.captured[2]
  /\ settingsOf(globals) = lastCall.captured[1]

\* The step of the single-iteration run, seen from the state before it: the
\* globals with which the goroutine starts, the source's position, the
\* positions of its 26 neighbours that pass the validity check, and the
\* reduced score with the source at a position.
StepTaken1 ==
  /\ learningCycles[1].pc = "ready"
  /\ learningCycles'[1].pc = "sleeping"
  /\ lastCall'.op = "findAndApplyBestMoveForLearning"
AtStep == confirmObjectsInCloud(globals)
NeighboursOf(g) ==
  { clampToRoom(g.occupancyCloud, soundSource(g), Add(g.sourcePos, Vec(dx, dy, dz))) :
      << dx, dy, dz >> \in { d \in Range(offsets) \X Range(offsets) \X Range(offsets) :
                               d # << 0, 0, 0 >> } }
ValidAt(g, p) ==
  IsPositionAttemptValid(g.occupancyCloud, p, MovableScale, StateSoundSource,
                         g.listenerPos, MovableScale)
ValidNeighboursOf(g) == { p \in NeighboursOf(g) : ValidAt(g, p) }
ReducedScoreAt(g, p) == calculateListenerScore(g, p, g.listenerPos)
BestNeighboursOf(g) ==
  { p \in ValidNeighboursOf(g) :
      \A q \in ValidNeighboursOf(g) : ReducedScoreAt(g, p) >= ReducedScoreAt(g, q) }
Improvable(g) ==
  \E p \in ValidNeighboursOf(g) : ReducedScoreAt(g, p) > ReducedScoreAt(g, g.sourcePos)
TiedNeighboursOf(g) ==
  { p \in ValidNeighboursOf(g) : ReducedScoreAt(g, p) = ReducedScoreAt(g, g.sourcePos) }

\* C29: if a valid candidate scores above the baseline, the step commits one
\* of the valid candidates of the highest score, any of them, and neither
\* the current position nor a random jump.
C29_ImprovingMoveIsABest ==
  [][ (StepTaken1 /\ Improvable(AtStep))
      => /\ lastCall'.choices = BestNeighboursOf(AtStep)
         /\ sourcePos' \in BestNeighboursOf(AtStep)
         /\ sourcePos' = lastCall'.chosenPos
         /\ sourcePos' # sourcePos
         /\ ~lastCall'.attemptedJump ]_vars

\* An improving step that had two positions of the highest score to choose
\* from.
C29_Witness ==
  /\ lastCall.op = "findAndApplyBestMoveForLearning"
  /\ ~lastCall.attemptedJump
  /\ sourcePos \in Range(lastCall.candidates)
  /\ sourcePos # lastCall.originalPos
  /\ sourcePos \in lastCall.choices
  /\ Cardinality(lastCall.choices) > 1
  /\ calculateListenerScore(globals, sourcePos, listenerPos)
       > calculateListenerScore(globals, lastCall.originalPos, listenerPos)

\* C30: with no candidate above the baseline and no jump attempted, the step
\* commits a position that ties the baseline, and one other than the current
\* position whenever a valid neighbour other than it ties the baseline.
C30_NoImprovementPrefersMoving ==
  [][ (StepTaken1 /\ ~Improvable(AtStep) /\ ~lastCall'.attemptedJump)
      => /\ sourcePos' \in { sourcePos } \cup TiedNeighboursOf(AtStep)
         /\ (TiedNeighboursOf(AtStep) \ { sourcePos } # {}) => sourcePos' # sourcePos ]_vars

\* A step without improvement and without jump that moved the source to a
\* position of the same reduced score.
C30_Witness ==
  /\ lastCall.op = "findAndApplyBestMoveForLearning"
  /\ ~lastCall.attemptedJump
  /\ sourcePos # lastCall.originalPos
  /\ calculateListenerScore(globals, sourcePos, listenerPos)
       = calculateListenerScore(globals, lastCall.originalPos, listenerPos)

\* C23: if all 26 neighbouring positions are rejected by the validity check,
\* the step leaves the object where it is.
C23_BoxedInStays ==
  [][ (StepTaken1 /\ ValidNeighboursOf(AtStep) = {}) => sourcePos' = sourcePos ]_vars

\* C23, amended: if all 26 neighbouring positions are rejected, the step
\* leaves the object where it is unless a random jump is attempted and its
\* target passes the validity check, which the object then takes.
C23_BoxedInStaysUnlessJump ==
  [][ (StepTaken1 /\ ValidNeighboursOf(AtStep) = {})
      => \/ sourcePos' = sourcePos
         \/ lastCall'.attemptedJump /\ ValidAt(AtStep, sourcePos') ]_vars

\* A step that found every neighbouring position rejected, attempted no
\* jump and left the source where it was.
C23_Witness ==
  /\ lastCall.op = "findAndApplyBestMoveForLearning"
  /\ lastCall.candidates = << >>
  /\ ~lastCall.attemptedJump
  /\ sourcePos = lastCall.originalPos

\* The single-iteration run has returned, and the globals with which its
\* goroutine started, rebuilt from the placement at the start.
RunEnded == learningCycles[1].pc = "finished"
StartOfRun ==
  confirmObjectsInCloud(startLearningMode(
    placed(lastCall.start.sourcePos, lastCall.start.listenerPos, explorationFactor)))
EndsAsStarted ==
  /\ sourcePos = lastCall.start.sourcePos
  /\ listenerPos = lastCall.start.listenerPos
  /\ listenerRayScore = lastCall.start.score

\* C24: a run with iteration cap 1 from a placement where no valid neighbour
\* of the source has a higher reduced score, and in which no random jump is
\* taken, ends with both objects where they were and with the score it
\* started from.
C24_NoBetterNeighbourStays ==
  (RunEnded /\ ~Improvable(StartOfRun) /\ ~lastCall.attemptedJump) => EndsAsStarted

\* Every valid neighbour of the source other than its own position has a
\* lower reduced score.
StrictlyBest(g) ==
  \A p \in ValidNeighboursOf(g) \ { g.sourcePos } :
    ReducedScoreAt(g, p) < ReducedScoreAt(g, g.sourcePos)

\* C24, amended: a run with iteration cap 1 from a placement where every
\* valid neighbour of the source other than its position has a strictly
\* lower reduced score, and in which no random jump is attempted, ends with
\* both objects where they were and with the score it started from.
C24_StrictlyBestStays ==
  (RunEnded /\ StrictlyBest(StartOfRun) /\ ~lastCall.attemptedJump) => EndsAsStarted

\* A run that ended as it started although the source had valid neighbours
\* to move to, all of a lower score.
C24_Witness ==
  /\ RunEnded
  /\ ~lastCall.attemptedJump
  /\ StrictlyBest(StartOfRun)
  /\ ValidNeighboursOf(StartOfRun) \ { lastCall.start.sourcePos } # {}
  /\ EndsAsStarted
  /\ currentLearningIteration = SingleIterationCap

C39_EvalNumRaysClamped ==
  lastCall.op = "evalNumRays"
  => /\ lastCall.result \in 10..100
     /\ lastCall.numRays < 550 => lastCall.result = 10
     /\ lastCall.numRays >= 5000 => lastCall.result = 100
     /\ (lastCall.numRays >= 550 /\ lastCall.numRays < 5000)
        => /\ 50 * lastCall.result <= lastCall.numRays
           /\ lastCall.numRays < 50 * lastCall.result + 50

\* The count has been computed for a negative numRays.
C39_Witness ==
  /\ lastCall.op = "evalNumRays"
  /\ lastCall.numRays < -50
  /\ lastCall.result = 10

\* C38: on ints of w bits the table of precomputeFibonacci(n) has no negative
\* entry and never decreases; an entry whose sum does not fit is the previous
\* entry, any other entry is the sum.
C38_FibonacciOverflowCapped ==
  lastCall.op = "precomputeFibonacciOfWidth"
  => /\ Len(lastCall.result) = lastCall.n + 1
     /\ \A i \in 1..Len(lastCall.result) : lastCall.result[i] >= 0
     /\ \A i \in 1..(Len(lastCall.result) - 1) : lastCall.result[i] <= lastCall.result[i + 1]
     /\ \A i \in 3..Len(lastCall.result) :
          lastCall.result[i] =
            IF lastCall.result[i - 1] + lastCall.result[i - 2] >= Pow(2, lastCall.w - 1)
            THEN lastCall.result[i - 1]
            ELSE lastCall.result[i - 1] + lastCall.result[i - 2]

\* A table on ints of 8 bits in which a sum did not fit: 89 + 55 exceeds 127.
C38_Witness ==
  /\ lastCall.op = "precomputeFibonacciOfWidth"
  /\ lastCall.w = 8
  /\ lastCall.n = FIBONACCI_SCORE_CAP_INDEX
  /\ lastCall.result[12] = 89
  /\ lastCall.result[13] = 89

\* C36: goStartLearningMode called with no run active sets the iteration
\* count to 0, the best score and the score of the best snapshot to -1 and
\* the turn to the source, and starts one loop, which has not yet taken a
\* step; called with a run active it changes nothing and starts no loop;
\* goStopLearningMode called with no run active changes nothing.
C36_StartResetsStopIgnored ==
  [][ lastCall' # lastCall
      => IF lastCall'.op = "goStartLearningMode"
         THEN IF learningModeActive
              THEN UNCHANGED << programVars, debounceTimer, learningCycles >>
              ELSE /\ learningModeActive'
                   /\ currentLearningIteration' = 0
                   /\ globalBestScore' = -1
                   /\ globalBestSettings'.Score = -1
                   /\ isSoundSourceTurn'
                   /\ Len(learningCycles') = Len(learningCycles) + 1
                   /\ learningCycles'[Len(learningCycles')].pc = "ready"
                   /\ \A c \in DOMAIN learningCycles : learningCycles'[c] = learningCycles[c]
         ELSE ~learningModeActive
              => UNCHANGED << programVars, debounceTimer, learningCycles >> ]_vars

\* A second run has been started after a first one that was stopped after one
\* step, with the turn at the listener and a best score recorded: the start
\* has put the counters back and the new loop has not yet run.
C36_Witness ==
  /\ lastCall.op = "goStartLearningMode"
  /\ ~lastCall.active
  /\ Len(learningCycles) = 2
  /\ learningCycles[1].pc = "finished"
  /\ learningCycles[2].pc = "ready"
  /\ currentLearningIteration = 0
  /\ globalBestScore = -1
  /\ globalBestSettings.Score = -1
  /\ isSoundSourceTurn
  /\ sourcePos # SourceStart
  /\ listenerPos = ListenerStart

\* p is within the room for an object of the extent of movingObject.
WithinRoomFor(oc, movingObject, p) ==
  \A i \in 1..3 : /\ oc.RoomMin[i] + movingObject.Scale[i] \div 2 <= p[i]
                  /\ p[i] <= oc.RoomMax[i] - movingObject.Scale[i] \div 2

\* The positions a step of movingObject tests before any validity check.
TestPositionsOf(g, movingObject) ==
  { clampToRoom(g.occupancyCloud, movingObject, Add(movingObject.Position, neighbourOffsets[k])) :
      k \in DOMAIN neighbourOffsets }

KeptCandidatesOf(g, movingObject, fixedObject) ==
  candidateLoop(g, movingObject, fixedObject, 1, << >>)

CandidatesWithinRoom(g, movingObject, fixedObject) ==
  \E kept \in { KeptCandidatesOf(g, movingObject, fixedObject) } :
    /\ \A p \in TestPositionsOf(g, movingObject) \cup jumpPositionsOf(g, movingObject) :
         WithinRoomFor(g.occupancyCloud, movingObject, p)
    /\ \A p \in Range(kept) : WithinRoomFor(g.occupancyCloud, movingObject, p)
    /\ \A j, k \in DOMAIN kept : j # k => kept[j] # kept[k]

\* C31: in every state, whichever object were to move next, every position
\* the step would test, every jump target and every candidate kept lies
\* within RoomMin + s/2 .. RoomMax - s/2 on each axis and no candidate is kept
\* twice; and both objects are within these limits, whatever steps have run.
C31_CandidatesAndObjectsWithinRoom ==
  /\ CandidatesWithinRoom(globals, soundSource(globals), listener(globals))
  /\ CandidatesWithinRoom(globals, listener(globals), soundSource(globals))
  /\ WithinRoomFor(occupancyCloud, soundSource(globals), sourcePos)
  /\ WithinRoomFor(occupancyCloud, listener(globals), listenerPos)

\* Two steps of a run have moved both objects, and the source now stands where
\* offsets lead out of the room and clamped positions coincide.
C31_Witness ==
  /\ stepsSinceStart = 2
  /\ sourcePos # SourceStart
  /\ listenerPos # ListenerStart
  /\ \E k \in DOMAIN neighbourOffsets :
       ~WithinRoomFor(occupancyCloud, soundSource(globals),
                      Add(sourcePos, neighbourOffsets[k]))
  /\ Cardinality(TestPositionsOf(globals, soundSource(globals))) < Len(neighbourOffsets) - 1
  /\ Len(KeptCandidatesOf(globals, soundSource(globals), listener(globals))) > 0

\* What the reduced evaluation's tracer reports for the ray from the source
\* in a direction, called as calculateListenerScore calls it for the current
\* placement: the bounce count of the hit, or -1.
ReducedOutcome(g, direction) ==
  castRayAndGetBounceCountForEvaluation(g, g.sourcePos, direction, 0,
                                        evaluationCollidables(g, g.sourcePos),
                                        g.listenerPos, listener(g).Scale[1])

\* The same of the full evaluation's tracer, called as visualizeSoundPropagation
\* calls it.
FullOutcome(g, direction) ==
  LET hitData == castRayAndAddVisuals(g, << >>, g.sourcePos, direction, 0,
                                      visualizationCollidables(g), g.listenerPos,
                                      listener(g).Scale[1])
  IN  IF hitData.hitListener THEN hitData.bounces ELSE -1

\* C32: for the placement, scene and parameters of any state and any ray
\* direction the two tracers report the same outcome: both miss the
\* listener, or both hit it with the same bounce count.
C32_TracersAgree ==
  \A direction \in Range(AxisDirections) :
    ReducedOutcome(globals, direction) = FullOutcome(globals, direction)

\* The path of a ray by geometry alone: the segments from the origin on, each
\* from the reflection of the one before, while an object is hit and the depth
\* is below maxReflections; reaches says whether the segment reaches the
\* listener before any object.
RECURSIVE PathFrom(_, _, _, _, _, _, _)
PathFrom(g, origin, direction, depth, collidables, target, radius) ==
  IF depth > g.maxReflections THEN << >>
  ELSE LET intersection == performRaycast(origin, direction, MAX_RAY_DISTANCE,
                                          effectiveCollidables(g, depth, collidables),
                                          NoObject)
           rayLength == IF intersection.Hit THEN intersection.Distance
                        ELSE MAX_RAY_DISTANCE
           segment == [ Start |-> origin, End |-> Add(origin, Scale(direction, rayLength)),
                        reaches |-> listenerHitOnSegment(origin, direction, intersection,
                                                         target, radius) ]
       IN  IF intersection.Hit /\ depth < g.maxReflections
           THEN << segment >>
                \o PathFrom(g, Add(intersection.Point,
                                   Scale(Reflect(direction, intersection.Normal),
                                         REFLECTION_OFFSET)),
                            Reflect(direction, intersection.Normal), depth + 1,
                            collidables, target, radius)
           ELSE << segment >>

\* The path of the ray of the last call.
PathOfCall ==
  PathFrom(globals, sourcePos, lastCall.direction, 0,
           collidablesNamed(globals, lastCall.list), listenerPos,
           listener(globals).Scale[1])

\* b is the depth of the first segment of the path that reaches the listener.
FirstReaching(path, b) ==
  /\ b + 1 \in DOMAIN path
  /\ path[b + 1].reaches
  /\ \A k \in 1..b : ~path[k].reaches

\* C34: tracing one ray ends after at most maxReflections + 1 segments; a
\* hit reported by either tracer has a bounce count b with
\* 0 <= b <= maxReflections, and b is the depth of the first segment of the
\* path that reaches the listener.
C34_BounceCountIsFirstReachingDepth ==
  lastCall.op = "castRay"
  => \E path \in { PathOfCall } :
       /\ Len(path) <= Max(maxReflections + 1, 0)
       /\ Len(lastCall.rayVisuals) <= Len(path)
       /\ (~showOnlyListenerRays
           /\ ~opacityBelowThreshold(segmentOpacity(globals, Max(maxReflections, 0))))
          => Len(lastCall.rayVisuals) = Len(path)
       /\ lastCall.bounceCount # -1
          => /\ lastCall.bounceCount \in 0..maxReflections
             /\ FirstReaching(path, lastCall.bounceCount)
       /\ lastCall.hitData.hitListener
          => /\ lastCall.hitData.bounces \in 0..maxReflections
             /\ FirstReaching(path, lastCall.hitData.bounces)
       /\ ~lastCall.hitData.hitListener => lastCall.hitData.bounces = -1

\* A ray that reaches the listener on a bounce, not directly, reported so by
\* both tracers.
C34_Witness ==
  /\ lastCall.op = "castRay"
  /\ lastCall.bounceCount >= 1
  /\ lastCall.hitData.hitListener
  /\ lastCall.hitData.bounces = lastCall.bounceCount
  /\ Len(PathOfCall) > lastCall.bounceCount + 1

\* A drawn line is segment k of the path.
IsSegment(line, path, k) ==
  /\ line.Start = path[k].Start
  /\ line.End = path[k].End

\* C35: with showOnlyListenerRays on, every segment castRayAndAddVisuals
\* appends to rayVisuals is a segment of a path on which it or a deeper
\* segment reaches the listener; it carries listenerRayColor if it reaches
\* the listener itself and the colour of its bounce index otherwise.
C35_OnlyListenerPathsDrawn ==
  lastCall.op = "castRay" /\ showOnlyListenerRays
  => \E path \in { PathOfCall } :
       \A i \in DOMAIN lastCall.rayVisuals :
         \E k \in DOMAIN path :
           /\ IsSegment(lastCall.rayVisuals[i], path, k)
           /\ \E j \in k..Len(path) : path[j].reaches
           /\ lastCall.rayVisuals[i].Color =
                IF path[k].reaches THEN listenerRayColor
                ELSE bounceColors[((k - 1) % Len(bounceColors)) + 1]

\* With showOnlyListenerRays on, a ray has reached the listener on a bounce:
\* the segment before the hit is drawn in its bounce colour and the hitting
\* segment in listenerRayColor, while another segment of the path is not drawn.
C35_Witness ==
  /\ lastCall.op = "castRay"
  /\ showOnlyListenerRays
  /\ lastCall.hitData.hitListener
  /\ lastCall.hitData.bounces >= 1
  /\ Len(lastCall.rayVisuals) >= 2
  /\ Len(lastCall.rayVisuals) < Len(PathOfCall)
  /\ \E i \in DOMAIN lastCall.rayVisuals : lastCall.rayVisuals[i].Color = listenerRayColor
  /\ \E i \in DOMAIN lastCall.rayVisuals : lastCall.rayVisuals[i].Color = bounceColors[1]

\* C33: when a run has ended, the full-resolution score of the placement
\* left in force is at least that of the placement the run started from.
C33_RunEndsNoWorse ==
  RunEnded => fullEvaluation(globals).score >= lastCall.start.score

\* C37: with occupancyCloud nil no optimizer step ends in a fault: a run that
\* has counted a step has taken it to its end and is still on or has ended
\* by the cap or by a stop.
C37_StepWithoutCloudCompletes ==
  occupancyCloud = NilCloud => lastCall.op # "panic"

====
